---------------------------- MODULE Spec2Model ----------------------------
(***************************************************************************)
(* Model of the crowd-pilot extension: the line diff (SequenceMatcher),    *)
(* the edit coalescer and transcript serializer                            *)
(* (ConversationStateManager), the sed-command parser (parseAction) and    *)
(* the model-request life cycle (autoShowNextAction).                      *)
(*                                                                         *)
(* Text is a sequence of one-character strings; a line sequence is a       *)
(* sequence of such texts.  Indices into JavaScript strings and arrays     *)
(* are 0-based in the source and kept 0-based here; the TLA+ sequences     *)
(* that hold them are 1-based, hence the "+ 1" at every access.            *)
(***************************************************************************)
EXTENDS Integers, Sequences, FiniteSets, TLC

VARIABLES
    csm,             \* the ConversationStateManager instance (conversationManager)
    activatedFiles,  \* activatedFiles: files whose content has been captured
    active,          \* vscode.window.activeTextEditor's file, or NoFile
    docs,            \* the text of each open document, as the editor holds it
    reading,         \* a shell execution's output stream is being read
    lastCall,        \* what the last handler did (observation only)
    nEvents,         \* number of handler runs so far (bounds the exploration)
    ext,             \* the module-level variables of extension.ts
    clock,           \* the time, and what the prediction timers read of it
    fin, fout, fpc   \* harness of the pure functions: input, output, position

csmVars == <<csm, activatedFiles, active, docs, reading, lastCall, nEvents, ext, clock>>
harnessVars == <<fin, fout, fpc>>
vars == <<csmVars, harnessVars>>

-----------------------------------------------------------------------------
(* Bounds *)

MaxDiffLen == 4
MaxEvents == 4
MaxCodecLines == 2
MaxPlainLines == 3

-----------------------------------------------------------------------------
(* Text helpers *)

NL == "\n"
CR == "\r"

Max2(x, y) == IF x >= y THEN x ELSE y
Min2(x, y) == IF x <= y THEN x ELSE y

\* s.slice(from, to) with 0-based, end-exclusive, clamped indices
Slice(s, from, to) ==
    LET f == Min2(Max2(from, 0), Len(s))
        t == Min2(Max2(to, 0), Len(s))
    IN IF t <= f THEN <<>> ELSE SubSeq(s, f + 1, t)

RECURSIVE JoinWith(_, _)
\* lines.join(sep)
JoinWith(lines, sep) ==
    IF Len(lines) = 0 THEN <<>>
    ELSE IF Len(lines) = 1 THEN lines[1]
    ELSE lines[1] \o sep \o JoinWith(Tail(lines), sep)

RECURSIVE SplitFrom(_, _, _, _)
\* s.split('\n') when crlf is FALSE, s.split(/\r?\n/) when crlf is TRUE:
\* a CR directly before the LF belongs to the separator
SplitFrom(s, i, cur, crlf) ==
    IF i > Len(s) THEN <<cur>>
    ELSE IF s[i] = NL
         THEN LET piece == IF crlf /\ Len(cur) > 0 /\ cur[Len(cur)] = CR
                           THEN SubSeq(cur, 1, Len(cur) - 1) ELSE cur
              IN <<piece>> \o SplitFrom(s, i + 1, <<>>, crlf)
         ELSE SplitFrom(s, i + 1, Append(cur, s[i]), crlf)

SplitNL(s) == SplitFrom(s, 1, <<>>, FALSE)
SplitLines(s) == SplitFrom(s, 1, <<>>, TRUE)

StartsWithAt(s, i, pat) ==
    /\ i >= 1
    /\ i + Len(pat) - 1 <= Len(s)
    /\ SubSeq(s, i, i + Len(pat) - 1) = pat

RECURSIVE ReplaceFrom(_, _, _, _)
ReplaceFrom(s, i, pat, rep) ==
    IF i > Len(s) THEN <<>>
    ELSE IF StartsWithAt(s, i, pat)
         THEN rep \o ReplaceFrom(s, i + Len(pat), pat, rep)
         ELSE <<s[i]>> \o ReplaceFrom(s, i + 1, pat, rep)

\* s.replace(/pat/g, rep) for a literal pattern
ReplaceAll(s, pat, rep) == ReplaceFrom(s, 1, pat, rep)

WhiteSpace == {" ", "\t", "\n", "\r"}

RECURSIVE TrimEnd(_)
TrimEnd(s) ==
    IF Len(s) > 0 /\ s[Len(s)] \in WhiteSpace
    THEN TrimEnd(SubSeq(s, 1, Len(s) - 1)) ELSE s

RECURSIVE TrimStart(_)
TrimStart(s) ==
    IF Len(s) > 0 /\ s[1] \in WhiteSpace THEN TrimStart(Tail(s)) ELSE s

Trim(s) == TrimStart(TrimEnd(s))

RECURSIVE StripTrailingNL(_)
\* s.replace(/\n+$/, '')
StripTrailingNL(s) ==
    IF Len(s) > 0 /\ s[Len(s)] = NL
    THEN StripTrailingNL(SubSeq(s, 1, Len(s) - 1)) ELSE s

\* text.replace(/\\n/g, '\n').replace(/\\r/g, '\r'): the two-character
\* sequences backslash-n and backslash-r become LF and CR
UnescapeNR(text) ==
    ReplaceAll(ReplaceAll(text, <<"\\", "n">>, <<NL>>), <<"\\", "r">>, <<CR>>)

cleanText(text) ==
    TrimEnd(ReplaceAll(ReplaceAll(text, <<CR, NL>>, <<NL>>), <<CR>>, <<NL>>))

escapeSingleQuotesForSed(text) ==
    ReplaceAll(text, <<"'">>, <<"'", "\"", "'", "\"", "'">>)

Spaces(n) == [i \in 1..n |-> " "]

applyChange(content, offset, length, newText) ==
    LET text == UnescapeNR(newText)
        base == IF offset > Len(content)
                THEN content \o Spaces(offset - Len(content)) ELSE content
    IN Slice(base, 0, offset) \o text \o Slice(base, offset + length, Len(base))

\* (text.match(/\n/g) || []).length
CountNL(text) == Cardinality({i \in 1..Len(text) : text[i] = NL})

\* the 1-based line of an offset: content.slice(0, offset).split('\n').length
LineOfOffset(content, offset) == Len(SplitNL(Slice(content, 0, offset)))

-----------------------------------------------------------------------------
(* SequenceMatcher: port of difflib with junk=None, autojunk=False *)

RECURSIVE FLMRow(_, _, _, _, _, _, _, _)
\* the inner loop of findLongestMatch for one i: the j of b2j.get(a[i]),
\* ascending, skipping j < blo and stopping at j >= bhi
FLMRow(a, b, i, j, bhi, j2len, newj2len, best) ==
    IF j >= bhi THEN [j2len |-> newj2len, best |-> best]
    ELSE IF b[j + 1] = a[i + 1]
         THEN LET k  == (IF j - 1 \in DOMAIN j2len THEN j2len[j - 1] ELSE 0) + 1
                  nb == IF k > best.n
                        THEN [i |-> i - k + 1, j |-> j - k + 1, n |-> k]
                        ELSE best
              IN FLMRow(a, b, i, j + 1, bhi, j2len, (j :> k) @@ newj2len, nb)
         ELSE FLMRow(a, b, i, j + 1, bhi, j2len, newj2len, best)

RECURSIVE FLMScan(_, _, _, _, _, _, _, _)
RECURSIVE FLMNext(_, _, _, _, _, _, _)
\* the outer loop of findLongestMatch over i in [alo, ahi)
FLMScan(a, b, i, ahi, blo, bhi, j2len, best) ==
    IF i >= ahi THEN best
    ELSE FLMNext(a, b, i, ahi, blo, bhi, FLMRow(a, b, i, blo, bhi, j2len, << >>, best))

\* j2len = newj2len at the end of one i; best.n is never negative, and the
\* test has the row evaluated before the next one starts
FLMNext(a, b, i, ahi, blo, bhi, r) ==
    IF r.best.n >= 0
    THEN FLMScan(a, b, i + 1, ahi, blo, bhi, r.j2len, r.best)
    ELSE r.best

RECURSIVE ExtendBack(_, _, _, _, _)
ExtendBack(a, b, alo, blo, m) ==
    IF m.i > alo /\ m.j > blo /\ a[m.i] = b[m.j]
    THEN ExtendBack(a, b, alo, blo, [i |-> m.i - 1, j |-> m.j - 1, n |-> m.n + 1])
    ELSE m

RECURSIVE ExtendFwd(_, _, _, _, _)
ExtendFwd(a, b, ahi, bhi, m) ==
    IF m.i + m.n < ahi /\ m.j + m.n < bhi /\ a[m.i + m.n + 1] = b[m.j + m.n + 1]
    THEN ExtendFwd(a, b, ahi, bhi, [m EXCEPT !.n = m.n + 1])
    ELSE m

findLongestMatch(a, b, alo, ahi, blo, bhi) ==
    LET best == FLMScan(a, b, alo, ahi, blo, bhi, << >>,
                        [i |-> alo, j |-> blo, n |-> 0])
    IN ExtendFwd(a, b, ahi, bhi, ExtendBack(a, b, alo, blo, best))

RECURSIVE MatchQueue(_, _, _, _)
RECURSIVE MatchFound(_, _, _, _, _, _)
\* the while (queue.length) loop of getMatchingBlocks; queue.pop() takes the
\* last element
MatchQueue(a, b, queue, found) ==
    IF Len(queue) = 0 THEN found
    ELSE MatchFound(a, b, queue[Len(queue)], SubSeq(queue, 1, Len(queue) - 1), found,
                    findLongestMatch(a, b, queue[Len(queue)][1], queue[Len(queue)][2],
                                     queue[Len(queue)][3], queue[Len(queue)][4]))

\* the body of the loop once the longest match m of q = [alo, ahi, blo, bhi]
\* is known
MatchFound(a, b, q, rest, found, m) ==
    IF m.n > 0
    THEN LET q1 == IF q[1] < m.i /\ q[3] < m.j
                   THEN Append(rest, <<q[1], m.i, q[3], m.j>>) ELSE rest
         IN MatchQueue(a, b,
                       IF m.i + m.n < q[2] /\ m.j + m.n < q[4]
                       THEN Append(q1, <<m.i + m.n, q[2], m.j + m.n, q[4]>>) ELSE q1,
                       Append(found, m))
    ELSE MatchQueue(a, b, rest, found)

BlockLess(x, y) ==
    \/ x.i < y.i
    \/ x.i = y.i /\ x.j < y.j
    \/ x.i = y.i /\ x.j = y.j /\ x.n < y.n

RECURSIVE InsertBlock(_, _)
InsertBlock(sorted, m) ==
    IF Len(sorted) = 0 THEN <<m>>
    ELSE IF BlockLess(m, sorted[1]) THEN <<m>> \o sorted
    ELSE <<sorted[1]>> \o InsertBlock(Tail(sorted), m)

RECURSIVE SortBlocks(_)
\* matchingBlocks.sort by (i, j, n)
SortBlocks(blocks) ==
    IF Len(blocks) = 0 THEN <<>>
    ELSE InsertBlock(SortBlocks(Tail(blocks)), blocks[1])

RECURSIVE MergeAdjacent(_, _, _, _, _)
\* the for (const m of matchingBlocks) loop collapsing adjacent blocks
MergeAdjacent(blocks, i1, j1, k1, result) ==
    IF Len(blocks) = 0
    THEN IF k1 > 0 THEN Append(result, [i |-> i1, j |-> j1, n |-> k1]) ELSE result
    ELSE LET m == blocks[1]
         IN IF i1 + k1 = m.i /\ j1 + k1 = m.j
            THEN MergeAdjacent(Tail(blocks), i1, j1, k1 + m.n, result)
            ELSE MergeAdjacent(Tail(blocks), m.i, m.j, m.n,
                               IF k1 > 0
                               THEN Append(result, [i |-> i1, j |-> j1, n |-> k1])
                               ELSE result)

\* getMatchingBlocks without the sort of the blocks found
getMatchingBlocks_Unsorted(a, b) ==
    LET found  == MatchQueue(a, b, << <<0, Len(a), 0, Len(b)>> >>, <<>>)
        merged == MergeAdjacent(found, 0, 0, 0, <<>>)
    IN Append(merged, [i |-> Len(a), j |-> Len(b), n |-> 0])

getMatchingBlocks(a, b) ==
    LET found  == MatchQueue(a, b, << <<0, Len(a), 0, Len(b)>> >>, <<>>)
        merged == MergeAdjacent(SortBlocks(found), 0, 0, 0, <<>>)
    IN Append(merged, [i |-> Len(a), j |-> Len(b), n |-> 0])

RECURSIVE OpcodesFrom(_, _, _, _)
\* the loop of getOpcodes over the matching blocks, (i, j) the cursor
OpcodesFrom(blocks, i, j, acc) ==
    IF Len(blocks) = 0 THEN acc
    ELSE LET m    == blocks[1]
             tag  == IF i < m.i /\ j < m.j THEN "replace"
                     ELSE IF i < m.i THEN "delete"
                     ELSE IF j < m.j THEN "insert"
                     ELSE "none"
             acc1 == IF tag # "none"
                     THEN Append(acc, [tag |-> tag, i1 |-> i, i2 |-> m.i, j1 |-> j, j2 |-> m.j])
                     ELSE acc
             acc2 == IF m.n > 0
                     THEN Append(acc1, [tag |-> "equal", i1 |-> m.i, i2 |-> m.i + m.n,
                                        j1 |-> m.j, j2 |-> m.j + m.n])
                     ELSE acc1
         IN OpcodesFrom(Tail(blocks), m.i + m.n, m.j + m.n, acc2)

\* getOpcodes with the cursor left at the start of each matching block
getOpcodes_CursorAtBlock(a, b) ==
    LET RECURSIVE From(_, _, _, _)
        From(blocks, i, j, acc) ==
            IF Len(blocks) = 0 THEN acc
            ELSE From(Tail(blocks), blocks[1].i, blocks[1].j,
                      OpcodesFrom(<<blocks[1]>>, i, j, acc))
    IN From(getMatchingBlocks(a, b), 0, 0, <<>>)

getOpcodes(a, b) == OpcodesFrom(getMatchingBlocks(a, b), 0, 0, <<>>)

\* the thrown Error("Opcode list cannot be empty! ...")
EmptyDiffError == [error |-> "Opcode list cannot be empty"]

NonEqual(ops) == SelectSeq(ops, LAMBDA op : op.tag # "equal")

\* mutant: the block ends with the first non-equal opcode instead of the last
ChangedBlock_FirstHunk(nonEqual, afterLines) ==
    IF Len(nonEqual) = 0 THEN EmptyDiffError
    ELSE LET first == nonEqual[1]
         IN [error |-> "",
             startBefore |-> Max2(1, first.i1 + 1),
             endBefore |-> first.i2,
             startAfter |-> Max2(1, first.j1 + 1),
             endAfter |-> first.j2,
             replacementLines |-> Slice(afterLines, first.j1, first.j2)]

\* computeChangedBlockLines once the non-equal opcodes are known
ChangedBlock(nonEqual, afterLines) ==
    IF Len(nonEqual) = 0 THEN EmptyDiffError
    ELSE LET first == nonEqual[1]
             last  == nonEqual[Len(nonEqual)]
         IN [error |-> "",
             startBefore |-> Max2(1, first.i1 + 1),
             endBefore |-> last.i2,
             startAfter |-> Max2(1, first.j1 + 1),
             endAfter |-> last.j2,
             replacementLines |-> Slice(afterLines, first.j1, last.j2)]

\* computeChangedBlockLines after the two splits
ChangedBlockOfLines(beforeLines, afterLines) ==
    ChangedBlock(NonEqual(getOpcodes(beforeLines, afterLines)), afterLines)

computeChangedBlockLines(before, after) ==
    ChangedBlockOfLines(SplitLines(before), SplitLines(after))

-----------------------------------------------------------------------------
(* ConversationStateManager: state *)

Files == {"f", "g"}
NoFile == "none"

\* Map entries that are null or absent, and entries that hold a value
NoSnapshot == [some |-> FALSE, v |-> <<>>]
Snapshot(text) == [some |-> TRUE, v |-> text]
NoRegion == [some |-> FALSE, start |-> 0, end |-> 0]
Region(s, e) == [some |-> TRUE, start |-> s, end |-> e]

\* new ConversationStateManager(), which is also the state reset() leaves.
\* fileStates.get(f) ?? '' reads an absent entry as the empty text, so the
\* absent entry is the empty text here; pendingEditsKeys is the key order of
\* the pendingEditsBefore Map, which flushAllPendingEdits iterates.
NewManager ==
    [messages |-> <<>>,
     fileStates |-> [f \in Files |-> <<>>],
     perFileViewport |-> [f \in Files |-> NoRegion],
     filesOpenedInConversation |-> {},
     terminalOutputBuffer |-> <<>>,
     pendingEditsBefore |-> [f \in Files |-> NoSnapshot],
     pendingEditRegions |-> [f \in Files |-> NoRegion],
     pendingEditsKeys |-> <<>>]

\* the last listener run: the manager method it called, the arguments, and
\* how the call ended
LastNone ==
    [op |-> "activate", file |-> NoFile, threw |-> FALSE, flushCalled |-> FALSE,
     offset |-> 0, length |-> 0, newText |-> <<>>, late |-> FALSE]

Called(op, f, threw) == [LastNone EXCEPT !.op = op, !.file = f, !.threw = threw]

\* the documents of the workspace: a two-line file, and a file of 16 empty
\* lines and a last line z
InitialDocs ==
    "f" :> <<"a", NL, "b">> @@
    "g" :> [i \in 1..17 |-> IF i = 17 THEN "z" ELSE NL]

\* the clock at activation: Date.now() in ms since then, lastPredictionTimestamp
\* (undefined at first), the time each prediction timer is due at, by its id,
\* the times at which a timer has called autoShowNextAction, and the ids of
\* the timers that did
Clock0 ==
    [now |-> 0,
     lastPredictionTimestamp |-> [some |-> FALSE, v |-> 0],
     due |-> <<>>,
     calls |-> <<>>,
     fired |-> <<>>]

\* before activate(): a fresh manager, no file activated
CsmInit ==
    /\ csm = NewManager
    /\ activatedFiles = {}
    /\ active = NoFile
    /\ docs = InitialDocs
    /\ reading = FALSE
    /\ lastCall = LastNone
    /\ nEvents = 0
    /\ clock = Clock0

-----------------------------------------------------------------------------
(* ConversationStateManager: messages *)

VIEWPORT_RADIUS == 10
COALESCE_RADIUS == 5

\* A message of the log.  An assistant message holds the parts its template
\* literal is built from (MessageText renders the text); a user message that
\* shows file lines holds lineNumberedOutput's (number, line) pairs.
Msg0 ==
    [from |-> "", kind |-> "", file |-> NoFile, shape |-> "", s |-> 0, e |-> 0,
     payload |-> <<>>, vps |-> 0, vpe |-> 0, text |-> <<>>, out |-> <<>>]

\* `cat -n ${filePath}`
CatMessage(f) == [Msg0 EXCEPT !.from = "Assistant", !.kind = "cat", !.file = f]

\* `cat -n ${filePath} | sed -n '${vp.start},${vp.end}p'`
ViewportMessage(f, vp) ==
    [Msg0 EXCEPT !.from = "Assistant", !.kind = "viewport", !.file = f,
                 !.vps = vp.start, !.vpe = vp.end]

\* `${sedCmd} && cat -n ${targetFile} | sed -n '${vp.start},${vp.end}p'`
\* after cleanText, whose CR replacements reach the payload only
SedMessage(f, shape, s, e, sedPayload, vp) ==
    [Msg0 EXCEPT !.from = "Assistant", !.kind = "sed", !.file = f,
                 !.shape = shape, !.s = s, !.e = e,
                 !.payload = ReplaceAll(ReplaceAll(sedPayload, <<CR, NL>>, <<NL>>),
                                        <<CR>>, <<NL>>),
                 !.vps = vp.start, !.vpe = vp.end]

\* `<stdout>\n${output}\n</stdout>` of lineNumberedOutput
StdoutMessage(out) == [Msg0 EXCEPT !.from = "User", !.kind = "stdout", !.out = out]

TerminalCommandMessage(text) ==
    [Msg0 EXCEPT !.from = "Assistant", !.kind = "terminal", !.text = text]

TerminalOutputMessage(text) ==
    [Msg0 EXCEPT !.from = "User", !.kind = "termout", !.text = text]

\* lineNumberedOutput once content is split
NumberedLines(lines, hasRange, startLine, endLine) ==
    LET total == IF Len(lines) = 1 /\ lines[1] = <<>> THEN 0 ELSE Len(lines)
        s == IF hasRange THEN Max2(1, Min2(startLine, total)) ELSE 1
        e == IF hasRange THEN Max2(1, Min2(endLine, total)) ELSE total
    IN IF total = 0 \/ e < s THEN <<>>
       ELSE [k \in 1..(e - s + 1) |-> [n |-> s + k - 1, text |-> lines[s + k - 1]]]

\* lineNumberedOutput: the numbered lines s..e; startLine and endLine are given
\* when hasRange
lineNumberedOutput(content, hasRange, startLine, endLine) ==
    NumberedLines(SplitLines(content), hasRange, startLine, endLine)

serializeComputeViewport(totalLines, centerLine, radius) ==
    IF totalLines <= 0 THEN Region(1, 0)
    ELSE Region(Max2(1, centerLine - radius), Min2(totalLines, centerLine + radius))

-----------------------------------------------------------------------------
(* ConversationStateManager: methods.  A method that can throw returns      *)
(* [c |-> the state it leaves, threw |-> whether it threw].  A method's     *)
(* local constants are the parameters of the operators that continue it.    *)

Returns(c) == [c |-> c, threw |-> FALSE]
Throws(c) == [c |-> c, threw |-> TRUE]

\* appendMessage putting the message in front of the log
appendMessage_Unshift(c, m) == [c EXCEPT !.messages = <<m>> \o @]

appendMessage(c, m) == [c EXCEPT !.messages = Append(@, m)]

\* the assistant command and the user output that show lines vp of content
ShowViewport(c, filePath, content, vp) ==
    appendMessage(appendMessage(c, ViewportMessage(filePath, vp)),
                  StdoutMessage(lineNumberedOutput(content, TRUE, vp.start, vp.end)))

\* `cat -n ${filePath}` and its output, and filesOpenedInConversation.add
CaptureFile(c, filePath, content) ==
    [appendMessage(appendMessage(c, CatMessage(filePath)),
                   StdoutMessage(lineNumberedOutput(content, FALSE, 0, 0)))
        EXCEPT !.filesOpenedInConversation = @ \cup {filePath}]

\* maybeCaptureFileContents capturing nothing
maybeCaptureFileContents_Never(c, filePath, content) == c

maybeCaptureFileContents(c, filePath, content) ==
    IF filePath \in c.filesOpenedInConversation THEN c
    ELSE CaptureFile(c, filePath, content)

\* Terminal chunks are drawn from text without backspace, ESC, BEL or CR, on
\* which no step of normalizeTerminalOutput changes the text
normalizeTerminalOutput(raw) == raw

FlushCleaned(c, cleaned) ==
    [(IF Trim(cleaned) # <<>> THEN appendMessage(c, TerminalOutputMessage(cleaned)) ELSE c)
        EXCEPT !.terminalOutputBuffer = <<>>]

flushTerminalOutputBuffer(c) ==
    IF Len(c.terminalOutputBuffer) = 0 THEN c
    ELSE FlushCleaned(c, cleanText(normalizeTerminalOutput(
                             JoinWith(c.terminalOutputBuffer, <<>>))))

\* pendingEditsBefore.set(f, v) and pendingEditRegions.set(f, r); a Map keeps
\* its keys in the order of their first set
SetPending(c, f, snap, region) ==
    [c EXCEPT !.pendingEditsBefore[f] = snap,
              !.pendingEditRegions[f] = region,
              !.pendingEditsKeys =
                  IF \E k \in 1..Len(@) : @[k] = f THEN @ ELSE Append(@, f)]

\* replacementLines.map(escapeSingleQuotesForSed).join('\n')
SedPayload(replacementLines) ==
    JoinWith([k \in 1..Len(replacementLines) |->
                 escapeSingleQuotesForSed(replacementLines[k])], <<NL>>)

\* the choice with an insertion before the last line taken for an append
SedCommandOf_AppendAtLast(f, beforeTotalLines, blk, sedPayload, vp) ==
    IF blk.endBefore < blk.startBefore
    THEN IF blk.startBefore < Max2(1, beforeTotalLines)
         THEN SedMessage(f, "i", blk.startBefore, blk.startBefore, sedPayload, vp)
         ELSE SedMessage(f, "a", 0, 0, sedPayload, vp)
    ELSE IF Len(blk.replacementLines) = 0
         THEN SedMessage(f, "d", blk.startBefore, blk.endBefore, <<>>, vp)
         ELSE SedMessage(f, "c", blk.startBefore, blk.endBefore, sedPayload, vp)

\* the choice among the four sed shapes
SedCommandOf(f, beforeTotalLines, blk, sedPayload, vp) ==
    IF blk.endBefore < blk.startBefore
    THEN IF blk.startBefore <= Max2(1, beforeTotalLines)
         THEN SedMessage(f, "i", blk.startBefore, blk.startBefore, sedPayload, vp)
         ELSE SedMessage(f, "a", 0, 0, sedPayload, vp)
    ELSE IF Len(blk.replacementLines) = 0
         THEN SedMessage(f, "d", blk.startBefore, blk.endBefore, <<>>, vp)
         ELSE SedMessage(f, "c", blk.startBefore, blk.endBefore, sedPayload, vp)

\* flushPendingEditForFile from perFileViewport.set on
EmitEditAt(c, targetFile, beforeSnapshot, afterState, blk, vp) ==
    SetPending(
        appendMessage(
            appendMessage(
                maybeCaptureFileContents([c EXCEPT !.perFileViewport[targetFile] = vp],
                                         targetFile, beforeSnapshot),
                SedCommandOf(targetFile, Len(SplitLines(beforeSnapshot)), blk,
                             SedPayload(blk.replacementLines), vp)),
            StdoutMessage(lineNumberedOutput(afterState, TRUE, vp.start, vp.end))),
        targetFile, NoSnapshot, NoRegion)

\* flushPendingEditForFile after computeChangedBlockLines, which may have
\* thrown
EmitEdit(c, targetFile, beforeSnapshot, afterState, blk) ==
    IF blk.error # "" THEN Throws(c)
    ELSE Returns(EmitEditAt(c, targetFile, beforeSnapshot, afterState, blk,
                            serializeComputeViewport(
                                Len(SplitLines(afterState)),
                                (blk.startAfter + blk.endAfter) \div 2,
                                VIEWPORT_RADIUS)))

\* flushPendingEditForFile whose exit on equal contents leaves the region set
flushPendingEditForFile_KeepRegion(c, targetFile) ==
    IF ~c.pendingEditsBefore[targetFile].some THEN Returns(c)
    ELSE IF StripTrailingNL(c.pendingEditsBefore[targetFile].v)
                = StripTrailingNL(c.fileStates[targetFile])
    THEN Returns([c EXCEPT !.pendingEditsBefore[targetFile] = NoSnapshot])
    ELSE EmitEdit(c, targetFile, c.pendingEditsBefore[targetFile].v,
                  c.fileStates[targetFile],
                  computeChangedBlockLines(c.pendingEditsBefore[targetFile].v,
                                           c.fileStates[targetFile]))

flushPendingEditForFile(c, targetFile) ==
    LET beforeSnapshot == c.pendingEditsBefore[targetFile]
        afterState == c.fileStates[targetFile]
    IN IF ~beforeSnapshot.some THEN Returns(c)
       ELSE IF StripTrailingNL(beforeSnapshot.v) = StripTrailingNL(afterState)
       THEN Returns(SetPending(c, targetFile, NoSnapshot, NoRegion))
       ELSE EmitEdit(c, targetFile, beforeSnapshot.v, afterState,
                     computeChangedBlockLines(beforeSnapshot.v, afterState))

RECURSIVE FlushKeys(_, _)
RECURSIVE FlushRest(_, _)
\* for (const fname of this.pendingEditsBefore.keys())
FlushKeys(c, keys) ==
    IF Len(keys) = 0 THEN Returns(c)
    ELSE FlushRest(flushPendingEditForFile(c, Head(keys)), Tail(keys))

\* a throw of flushPendingEditForFile ends the loop
FlushRest(r, keys) == IF r.threw THEN r ELSE FlushKeys(r.c, keys)

flushAllPendingEdits(c) == FlushKeys(c, c.pendingEditsKeys)

\* handleTabEvent with a content snapshot
TabWithContent(c, filePath, content) ==
    CaptureFile([c EXCEPT !.fileStates[filePath] = content], filePath, content)

\* the viewport vp of a file is shown if it is not empty
EmitViewport(c, filePath, content, vp) ==
    IF vp.end >= vp.start
    THEN ShowViewport(maybeCaptureFileContents(c, filePath, content), filePath, content, vp)
    ELSE c

TabWithoutContent(c, filePath, content) ==
    IF ~c.perFileViewport[filePath].some \/ c.perFileViewport[filePath].end = 0
    THEN EmitViewport(
             [c EXCEPT !.perFileViewport[filePath] =
                 serializeComputeViewport(Len(SplitLines(content)), 1, VIEWPORT_RADIUS)],
             filePath, content,
             serializeComputeViewport(Len(SplitLines(content)), 1, VIEWPORT_RADIUS))
    ELSE EmitViewport(c, filePath, content, c.perFileViewport[filePath])

\* handleTabEvent after its two flushes; textContent is a snapshot or null
TabAfterFlush(c, filePath, textContent) ==
    IF textContent.some
    THEN TabWithContent(c, filePath, UnescapeNR(textContent.v))
    ELSE TabWithoutContent(c, filePath, c.fileStates[filePath])

\* handleTabEvent after flushAllPendingEdits, which may have thrown
TabAfterFlushAll(r, filePath, textContent) ==
    IF r.threw THEN r
    ELSE Returns(TabAfterFlush(flushTerminalOutputBuffer(r.c), filePath, textContent))

handleTabEvent(c, filePath, textContent) ==
    TabAfterFlushAll(flushAllPendingEdits(c), filePath, textContent)

\* mutant: an edit exactly COALESCE_RADIUS lines away counts as far
FarFromRegion_Inclusive(regionStart, region) ==
    \/ regionStart <= region.start - COALESCE_RADIUS
    \/ regionStart >= region.end + COALESCE_RADIUS

\* regionStart < (rstart - COALESCE_RADIUS) || regionStart > (rend + COALESCE_RADIUS)
FarFromRegion(regionStart, region) ==
    \/ regionStart < region.start - COALESCE_RADIUS
    \/ regionStart > region.end + COALESCE_RADIUS

\* handleContentEvent from applyChange on; currentRegion is null after a flush
RecordChange(c, filePath, before, after, currentRegion, regionStart, regionEnd) ==
    [SetPending(c, filePath,
                IF ~c.pendingEditsBefore[filePath].some
                THEN Snapshot(before) ELSE c.pendingEditsBefore[filePath],
                IF ~currentRegion.some
                THEN Region(regionStart, Max2(regionStart, regionEnd))
                ELSE Region(Min2(currentRegion.start, regionStart),
                            Max2(currentRegion.end, regionEnd)))
        EXCEPT !.fileStates[filePath] = after]

\* handleContentEvent after its flushPendingEditForFile, which may have thrown;
\* currentRegion = null
RecordAfterFlush(r, filePath, before, after, regionStart, regionEnd) ==
    IF r.threw THEN r
    ELSE Returns(RecordChange(r.c, filePath, before, after, NoRegion,
                              regionStart, regionEnd))

\* the result of handleContentEvent and whether it called
\* flushPendingEditForFile
WithFlush(flushCalled, r) == [c |-> r.c, threw |-> r.threw, flushCalled |-> flushCalled]

\* handleContentEvent once the edit's lines are known
ContentAtLines(c, filePath, before, after, regionStart, regionEnd) ==
    IF c.pendingEditRegions[filePath].some
       /\ FarFromRegion(regionStart, c.pendingEditRegions[filePath])
    THEN WithFlush(TRUE,
             RecordAfterFlush(flushPendingEditForFile(c, filePath), filePath, before,
                              after, regionStart, regionEnd))
    ELSE WithFlush(FALSE,
             Returns(RecordChange(c, filePath, before, after,
                                  c.pendingEditRegions[filePath], regionStart, regionEnd)))

\* handleContentEvent after flushTerminalOutputBuffer
ContentAfterFlush(c, filePath, offset, length, newText) ==
    ContentAtLines(c, filePath, c.fileStates[filePath],
                   applyChange(c.fileStates[filePath], offset, length, newText),
                   LineOfOffset(c.fileStates[filePath], offset),
                   LineOfOffset(c.fileStates[filePath], offset)
                       + Max2(Max2(CountNL(newText),
                                   CountNL(Slice(c.fileStates[filePath], offset,
                                                 offset + length))), 0))

handleContentEvent(c, filePath, offset, length, newText) ==
    ContentAfterFlush(flushTerminalOutputBuffer(c), filePath, offset, length, newText)

SelectionAtLine_Exclusive(c, filePath, content, targetLine, vp) ==
    IF ~vp.some \/ vp.end = 0 \/ targetLine <= vp.start \/ targetLine >= vp.end
    THEN EmitViewport(
             [c EXCEPT !.perFileViewport[filePath] =
                 serializeComputeViewport(Len(SplitLines(content)), targetLine,
                                          VIEWPORT_RADIUS)],
             filePath, content,
             serializeComputeViewport(Len(SplitLines(content)), targetLine,
                                      VIEWPORT_RADIUS))
    ELSE c

\* handleSelectionEvent once the target line is known
SelectionAtLine(c, filePath, content, targetLine, vp) ==
    IF ~vp.some \/ vp.end = 0 \/ targetLine < vp.start \/ targetLine > vp.end
    THEN EmitViewport(
             [c EXCEPT !.perFileViewport[filePath] =
                 serializeComputeViewport(Len(SplitLines(content)), targetLine,
                                          VIEWPORT_RADIUS)],
             filePath, content,
             serializeComputeViewport(Len(SplitLines(content)), targetLine,
                                      VIEWPORT_RADIUS))
    ELSE c

SelectionAfterFlush(c, filePath, offset) ==
    SelectionAtLine(c, filePath, c.fileStates[filePath],
                    LineOfOffset(c.fileStates[filePath], offset),
                    c.perFileViewport[filePath])

handleSelectionEvent(c, filePath, offset) ==
    IF c.pendingEditsBefore[filePath].some THEN c
    ELSE SelectionAfterFlush(flushTerminalOutputBuffer(c), filePath, offset)

\* handleTerminalCommandEvent after flushAllPendingEdits
CommandAfterFlushAll(r, command) ==
    IF r.threw THEN r
    ELSE Returns(appendMessage(flushTerminalOutputBuffer(r.c),
                               TerminalCommandMessage(cleanText(UnescapeNR(command)))))

handleTerminalCommandEvent(c, command) ==
    CommandAfterFlushAll(flushAllPendingEdits(c), command)

handleTerminalOutputEvent(c, output) ==
    [c EXCEPT !.terminalOutputBuffer = Append(@, UnescapeNR(output))]

\* flushAllPendingEdits(); flushTerminalOutputBuffer(): the second statement
FlushTerminalAfter(r) ==
    IF r.threw THEN r ELSE Returns(flushTerminalOutputBuffer(r.c))

handleTerminalFocusEvent(c) == FlushTerminalAfter(flushAllPendingEdits(c))

finalizeForModel_NoFlush(c) == Returns(c)

\* the state finalizeForModel leaves; it returns getMessages()
finalizeForModel(c) == FlushTerminalAfter(flushAllPendingEdits(c))

\* reset leaving the pending edits in place
reset_KeepPending(c) ==
    [c EXCEPT !.messages = <<>>,
              !.fileStates = [f \in Files |-> <<>>],
              !.perFileViewport = [f \in Files |-> NoRegion],
              !.filesOpenedInConversation = {},
              !.terminalOutputBuffer = <<>>]

\* messages = [], terminalOutputBuffer = [] and clear() of every Map and Set
reset(c) ==
    [c EXCEPT !.messages = <<>>,
              !.fileStates = [f \in Files |-> <<>>],
              !.perFileViewport = [f \in Files |-> NoRegion],
              !.filesOpenedInConversation = {},
              !.terminalOutputBuffer = <<>>,
              !.pendingEditsBefore = [f \in Files |-> NoSnapshot],
              !.pendingEditRegions = [f \in Files |-> NoRegion],
              !.pendingEditsKeys = <<>>]

-----------------------------------------------------------------------------
(* The text of an assistant command, and the parser of model responses.     *)
(* A regular expression of the source is the list of its items, matched     *)
(* left to right; a repeated character class takes the longest run, which   *)
(* is the only match where, as in every pattern below, the item after it    *)
(* cannot start with a character of the class.                              *)

Digits == <<"0", "1", "2", "3", "4", "5", "6", "7", "8", "9">>
Letters ==
    <<"a", "b", "c", "d", "e", "f", "g", "h", "i", "j", "k", "l", "m",
      "n", "o", "p", "q", "r", "s", "t", "u", "v", "w", "x", "y", "z">>
Capitals ==
    <<"A", "B", "C", "D", "E", "F", "G", "H", "I", "J", "K", "L", "M",
      "N", "O", "P", "Q", "R", "S", "T", "U", "V", "W", "X", "Y", "Z">>

DigitSet == {Digits[d] : d \in 1..10}
CapitalSet == {Capitals[k] : k \in 1..26}
LetterSet == {Letters[k] : k \in 1..26} \cup CapitalSet

RECURSIVE NumberText(_)
\* `${n}` of a non-negative integer
NumberText(n) ==
    IF n < 10 THEN <<Digits[n + 1]>>
    ELSE Append(NumberText(n \div 10), Digits[(n % 10) + 1])

RECURSIVE Number(_)
\* Number(digits) of a non-empty run of decimal digits
Number(ds) ==
    IF Len(ds) = 0 THEN 0
    ELSE Number(SubSeq(ds, 1, Len(ds) - 1)) * 10
            + ((CHOOSE d \in 1..10 : Digits[d] = ds[Len(ds)]) - 1)

\* toLowerCase of one character
LowerChar(ch) ==
    IF ch \in CapitalSet THEN Letters[CHOOSE k \in 1..26 : Capitals[k] = ch] ELSE ch

LowerText(s) == [i \in 1..Len(s) |-> LowerChar(s[i])]

RECURSIVE IndexFrom(_, _, _)
\* the least position k >= i at which pat occurs in s, 0 when there is none
IndexFrom(s, pat, i) ==
    IF i + Len(pat) - 1 > Len(s) THEN 0
    ELSE IF StartsWithAt(s, i, pat) THEN i
    ELSE IndexFrom(s, pat, i + 1)

RECURSIVE SkipSet(_, _, _)
\* the position after the longest run of characters of set that starts at i
SkipSet(s, i, set) ==
    IF i <= Len(s) /\ s[i] \in set THEN SkipSet(s, i + 1, set) ELSE i

RECURSIVE SkipUntil(_, _, _)
\* the position after the longest run of characters outside set
SkipUntil(s, i, set) ==
    IF i <= Len(s) /\ s[i] \notin set THEN SkipUntil(s, i + 1, set) ELSE i

\* The items of a pattern: a literal, a class repeated (+ or *), a negated
\* class repeated (+), the end of the text ($), and the rest of the text
\* ([\s\S]*$); cap marks a capture group
Item0 == [t |-> "", v |-> <<>>, set |-> {}, cap |-> FALSE]
Lit(v) == [Item0 EXCEPT !.t = "lit", !.v = v]
Plus(set) == [Item0 EXCEPT !.t = "plus", !.set = set]
Star(set) == [Item0 EXCEPT !.t = "star", !.set = set]
PlusNot(set) == [Item0 EXCEPT !.t = "plusnot", !.set = set]
End == [Item0 EXCEPT !.t = "end"]
Rest == [Item0 EXCEPT !.t = "rest"]
Group(item) == [item EXCEPT !.cap = TRUE]

NoMatch == [ok |-> FALSE, groups |-> <<>>]

\* the position after item matched at i, 0 when it does not match there
ItemEnd(s, i, item) ==
    CASE item.t = "lit" -> IF StartsWithAt(s, i, item.v) THEN i + Len(item.v) ELSE 0
      [] item.t = "plus" -> IF SkipSet(s, i, item.set) > i
                            THEN SkipSet(s, i, item.set) ELSE 0
      [] item.t = "star" -> SkipSet(s, i, item.set)
      [] item.t = "plusnot" -> IF SkipUntil(s, i, item.set) > i
                               THEN SkipUntil(s, i, item.set) ELSE 0
      [] item.t = "end" -> IF i = Len(s) + 1 THEN i ELSE 0
      [] OTHER -> Len(s) + 1

RECURSIVE MatchItems(_, _, _, _)
RECURSIVE MatchItem(_, _, _, _, _, _)
\* the match of items against s from position i on: the capture groups
MatchItems(s, i, items, groups) ==
    IF Len(items) = 0 THEN [ok |-> TRUE, groups |-> groups]
    ELSE MatchItem(s, i, Head(items), Tail(items), groups, ItemEnd(s, i, Head(items)))

MatchItem(s, i, item, rest, groups, e) ==
    IF e = 0 THEN NoMatch
    ELSE MatchItems(s, e, rest,
                    IF item.cap THEN Append(groups, SubSeq(s, i, e - 1)) ELSE groups)

\* s.match(/^items/)
MatchAnchored(s, items) == MatchItems(s, 1, items, <<>>)

Bash == <<"b", "a", "s", "h">>
\* the grave accent U+0060, which a TLA+ string cannot hold, as a character
Backtick == "U+0060"
Fence == <<Backtick, Backtick, Backtick>>

fencedBlock(lang, content) ==
    Fence \o LowerText(lang) \o <<NL>> \o content \o <<NL>> \o Fence \o <<NL>>

\* a file path is a one-character name, which is its own text
PathText(f) == <<f>>

SedWord == <<"s", "e", "d">>
CatN == <<"c", "a", "t", " ", "-", "n", " ">>

\* ` | sed -n '${vp.start},${vp.end}p'`
ViewportPipeText(m) ==
    <<" ", "|", " ">> \o SedWord \o <<" ", "-", "n", " ", "'">>
        \o NumberText(m.vps) \o <<",">> \o NumberText(m.vpe) \o <<"p", "'">>

\* the script of the sed command, between its quotes
SedScriptText(m) ==
    CASE m.shape = "d" ->
            NumberText(m.s) \o <<",">> \o NumberText(m.e) \o <<"d">>
      [] m.shape = "c" ->
            NumberText(m.s) \o <<",">> \o NumberText(m.e) \o <<"c", "\\", NL>>
                \o m.payload
      [] m.shape = "i" -> NumberText(m.s) \o <<"i", "\\", NL>> \o m.payload
      [] OTHER -> <<"$", "a", "\\", NL>> \o m.payload

\* cleanText(cmd) of an assistant message, from the parts it holds
CommandText(m) ==
    CASE m.kind = "cat" -> CatN \o PathText(m.file)
      [] m.kind = "viewport" -> CatN \o PathText(m.file) \o ViewportPipeText(m)
      [] m.kind = "sed" ->
            SedWord \o <<" ", "-", "i", " ", "'">> \o SedScriptText(m) \o <<"'", " ">>
                \o PathText(m.file) \o <<" ", "&", "&", " ">>
                \o CatN \o PathText(m.file) \o ViewportPipeText(m)
      [] OTHER -> m.text

\* the value of an assistant message
MessageText(m) == fencedBlock(Bash, CommandText(m))

Undefined == [some |-> FALSE, v |-> <<>>]
StringOf(v) == [some |-> TRUE, v |-> v]

\* fenceMatch[1] for the opening fence at open and the content start c0
FenceGroup(trimmed, c0, close) ==
    IF close = 0 THEN <<>> ELSE SubSeq(trimmed, c0, close - 1)

FenceContent(trimmed, c0) == FenceGroup(trimmed, c0, IndexFrom(trimmed, Fence, c0))

\* /FENCE(?:bash)?\s*([\s\S]*?)FENCE/i for FENCE three grave accents: group 1, the empty text when there is no
\* match
FenceMatch(trimmed, open) ==
    IF open = 0 THEN <<>>
    ELSE FenceContent(trimmed,
             SkipSet(trimmed,
                     IF StartsWithAt(LowerText(trimmed), open + 3, Bash)
                     THEN open + 7 ELSE open + 3,
                     WhiteSpace))

ExtractTrimmed(trimmed, group) ==
    IF group # <<>> THEN StringOf(group)
    ELSE IF Len(trimmed) > 0 THEN StringOf(trimmed) ELSE Undefined

extractBashCommand(raw) ==
    IF raw = <<>> THEN Undefined
    ELSE ExtractTrimmed(Trim(raw), FenceMatch(Trim(raw), IndexFrom(Trim(raw), Fence, 1)))

ThinkOpen == <<"<", "t", "h", "i", "n", "k", ">">>
ThinkClose == <<"<", "/", "t", "h", "i", "n", "k", ">">>

RECURSIVE StripThink(_, _, _)
RECURSIVE StripThinkTo(_, _, _, _)
\* command.replace(/<think>[\s\S]*?<\/think>/gi, ''), low the lower-cased
\* command
StripThink(s, low, i) ==
    IF i > Len(s) THEN <<>>
    ELSE IF StartsWithAt(low, i, ThinkOpen)
         THEN StripThinkTo(s, low, i, IndexFrom(low, ThinkClose, i + Len(ThinkOpen)))
         ELSE <<s[i]>> \o StripThink(s, low, i + 1)

StripThinkTo(s, low, i, close) ==
    IF close = 0 THEN <<s[i]>> \o StripThink(s, low, i + 1)
    ELSE StripThink(s, low, close + Len(ThinkClose))

RECURSIVE ClauseEnd(_, _)
\* the position of the first && or ||, Len(s) + 1 when there is none
ClauseEnd(s, i) ==
    IF i > Len(s) THEN i
    ELSE IF StartsWithAt(s, i, <<"&", "&">>) \/ StartsWithAt(s, i, <<"|", "|">>)
         THEN i
         ELSE ClauseEnd(s, i + 1)

\* command.split(/&&|\|\|/)[0].trim()
FirstClause(command) == Trim(SubSeq(command, 1, ClauseEnd(command, 1) - 1))

\* An action; position is the position of an editInsert and of the cursor of
\* a setSelections or openFile, hasSelections whether selections are given
Action0 ==
    [kind |-> "none", position |-> <<0, 0>>, start |-> <<0, 0>>, end |-> <<0, 0>>,
     text |-> <<>>, filePath |-> <<>>, hasSelections |-> FALSE]
NoAction == Action0

\* a text document: its path and its lines
Document(f, text) == [fsPath |-> PathText(f), lines |-> SplitLines(text)]

RECURSIVE SedOptions(_, _, _)
RECURSIVE SedOption(_, _, _, _)
\* (?:-[A-Za-z]+\s+)*-i\s+(?:-[A-Za-z]+\s+)*' from position i on: the
\* position of the quote, 0 when there is no match; seenI is whether one of
\* the options read so far is -i
SedOptions(s, i, seenI) ==
    IF i > Len(s) THEN 0
    ELSE IF s[i] = "'" THEN (IF seenI THEN i ELSE 0)
    ELSE IF s[i] = "-" THEN SedOption(s, i, seenI, SkipSet(s, i + 1, LetterSet))
    ELSE 0

SedOption(s, i, seenI, e) ==
    IF e = i + 1 \/ SkipSet(s, e, WhiteSpace) = e THEN 0
    ELSE SedOptions(s, SkipSet(s, e, WhiteSpace),
                    seenI \/ SubSeq(s, i, e - 1) = <<"-", "i">>)

\* '\s+([^\s&|]+)\s*$
SedFileItems ==
    <<Lit(<<"'">>), Plus(WhiteSpace), Group(PlusNot(WhiteSpace \cup {"&", "|"})),
      Star(WhiteSpace), End>>

RECURSIVE SedClose(_, _)
\* ([\s\S]*?)'\s+([^\s&|]+)\s*$ from position q on: the first quote that
\* the file name and the end of the text follow, 0 when there is none
SedClose(s, q) ==
    IF q > Len(s) THEN 0
    ELSE IF s[q] = "'" /\ MatchItems(s, q, SedFileItems, <<>>).ok THEN q
    ELSE SedClose(s, q + 1)

NoSedMatch == [ok |-> FALSE, script |-> <<>>, targetFile |-> <<>>]

SedMatchClose(s, open, close) ==
    IF close = 0 THEN NoSedMatch
    ELSE [ok |-> TRUE, script |-> SubSeq(s, open + 1, close - 1),
          targetFile |-> MatchItems(s, close, SedFileItems, <<>>).groups[1]]

SedMatchOpen(s, open) ==
    IF open = 0 THEN NoSedMatch ELSE SedMatchClose(s, open, SedClose(s, open + 1))

\* the match that starts with the word sed at p
SedMatchAt(s, p) ==
    IF SkipSet(s, p + 3, WhiteSpace) = p + 3 THEN NoSedMatch
    ELSE SedMatchOpen(s, SedOptions(s, SkipSet(s, p + 3, WhiteSpace), FALSE))

RECURSIVE SedMatchFrom(_, _)
RECURSIVE SedMatchOr(_, _, _)
\* the leftmost match: p is the next occurrence of the word sed
SedMatchFrom(s, p) ==
    IF p = 0 THEN NoSedMatch ELSE SedMatchOr(s, p, SedMatchAt(s, p))

SedMatchOr(s, p, m) ==
    IF m.ok THEN m ELSE SedMatchFrom(s, IndexFrom(s, SedWord, p + 1))

\* main.match(/sed\s+(?:-[A-Za-z]+\s+)*-i\s+(?:-[A-Za-z]+\s+)*'([\s\S]*?)'\s+([^\s&|]+)\s*$/)
sedMatch(main) == SedMatchFrom(main, IndexFrom(main, SedWord, 1))

BackslashNL == <<"\\", NL>>

\* /^(\d+),(\d+)d$/
DeleteItems ==
    <<Group(Plus(DigitSet)), Lit(<<",">>), Group(Plus(DigitSet)), Lit(<<"d">>), End>>
\* /^(\d+),(\d+)c\\\n([\s\S]*)$/
ReplaceItems ==
    <<Group(Plus(DigitSet)), Lit(<<",">>), Group(Plus(DigitSet)),
      Lit(<<"c">> \o BackslashNL), Group(Rest)>>
\* /^(\d+)i\\\n([\s\S]*)$/
InsertItems == <<Group(Plus(DigitSet)), Lit(<<"i">> \o BackslashNL), Group(Rest)>>
\* /^\$a\\\n([\s\S]*)$/
AppendItems == <<Lit(<<"$", "a">> \o BackslashNL), Group(Rest)>>

\* payload.replace(/'\"'\"'/g, "'").replace(/\\n/g, '\n').replace(/\\t/g, '\t')
\*        .replace(/\\'/g, "'").replace(/\\\\/g, '\\')
UnescapePayload(payload) ==
    ReplaceAll(
        ReplaceAll(
            ReplaceAll(
                ReplaceAll(
                    ReplaceAll(payload, <<"'", "\"", "'", "\"", "'">>, <<"'">>),
                    <<"\\", "n">>, <<NL>>),
                <<"\\", "t">>, <<"\t">>),
            <<"\\", "'">>, <<"'">>),
        <<"\\", "\\">>, <<"\\">>)

\* payload.endsWith('\n') ? payload : payload + '\n'
EndWithNL(payload) ==
    IF Len(payload) > 0 /\ payload[Len(payload)] = NL THEN payload
    ELSE Append(payload, NL)

RangeEnd_Unclamped(doc, endLine1) == <<Max2(0, endLine1 - 1) + 1, 0>>

\* the end of the range of lines up to endLine1: the start of the next line,
\* or the end of the last line of the document
RangeEnd(doc, endLine1) ==
    IF Max2(0, endLine1 - 1) + 1 >= Len(doc.lines)
    THEN <<Len(doc.lines) - 1, Len(doc.lines[Len(doc.lines)])>>
    ELSE <<Max2(0, endLine1 - 1) + 1, 0>>

EditDelete(doc, g) ==
    [Action0 EXCEPT !.kind = "editDelete",
                    !.start = <<Max2(0, Number(g[1]) - 1), 0>>,
                    !.end = RangeEnd(doc, Number(g[2]))]

EditReplace(doc, g) ==
    [Action0 EXCEPT !.kind = "editReplace",
                    !.start = <<Max2(0, Number(g[1]) - 1), 0>>,
                    !.end = RangeEnd(doc, Number(g[2])),
                    !.text = EndWithNL(UnescapePayload(g[3]))]

EditInsert(g) ==
    [Action0 EXCEPT !.kind = "editInsert",
                    !.position = <<Max2(0, Number(g[1]) - 1), 0>>,
                    !.text = EndWithNL(UnescapePayload(g[2]))]

EditAppend(doc, g) ==
    [Action0 EXCEPT !.kind = "editInsert",
                    !.position = <<Len(doc.lines), 0>>,
                    !.text = IF Len(doc.lines) > 0
                             THEN <<NL>> \o EndWithNL(UnescapePayload(g[1]))
                             ELSE EndWithNL(UnescapePayload(g[1]))]

\* parseEditFromSedCommand once the script is known to be for the document
EditOfScript(script, doc) ==
    IF MatchAnchored(script, DeleteItems).ok
    THEN EditDelete(doc, MatchAnchored(script, DeleteItems).groups)
    ELSE IF MatchAnchored(script, ReplaceItems).ok
    THEN EditReplace(doc, MatchAnchored(script, ReplaceItems).groups)
    ELSE IF MatchAnchored(script, InsertItems).ok
    THEN EditInsert(MatchAnchored(script, InsertItems).groups)
    ELSE IF MatchAnchored(script, AppendItems).ok
    THEN EditAppend(doc, MatchAnchored(script, AppendItems).groups)
    ELSE NoAction

EditOfMatch(m, doc) ==
    IF ~m.ok \/ m.targetFile # doc.fsPath THEN NoAction
    ELSE EditOfScript(m.script, doc)

\* NoAction is the undefined result
parseEditFromSedCommand(command, doc) ==
    IF FirstClause(command) = <<>> THEN NoAction
    ELSE EditOfMatch(sedMatch(FirstClause(command)), doc)

\* /^cat\s+-n\s+([^\s|]+)\s*$/
SimpleCatItems ==
    <<Lit(<<"c", "a", "t">>), Plus(WhiteSpace), Lit(<<"-", "n">>), Plus(WhiteSpace),
      Group(PlusNot(WhiteSpace \cup {"|"})), Star(WhiteSpace), End>>
\* /^cat\s+-n\s+([^\s|]+)\s*\|\s*sed\s+-n\s+'(\d+),(\d+)p'\s*$/
ViewportItems ==
    <<Lit(<<"c", "a", "t">>), Plus(WhiteSpace), Lit(<<"-", "n">>), Plus(WhiteSpace),
      Group(PlusNot(WhiteSpace \cup {"|"})), Star(WhiteSpace), Lit(<<"|">>),
      Star(WhiteSpace), Lit(SedWord), Plus(WhiteSpace), Lit(<<"-", "n">>),
      Plus(WhiteSpace), Lit(<<"'">>), Group(Plus(DigitSet)), Lit(<<",">>),
      Group(Plus(DigitSet)), Lit(<<"p", "'">>), Star(WhiteSpace), End>>

SimpleCat(g, doc) ==
    IF g[1] # doc.fsPath
    THEN [Action0 EXCEPT !.kind = "openFile", !.filePath = g[1]]
    ELSE [Action0 EXCEPT !.kind = "showTextDocument"]

\* center0 is the 0-based middle line of the viewport
ViewportAt(g, doc, center0) ==
    IF g[1] # doc.fsPath
    THEN [Action0 EXCEPT !.kind = "openFile", !.filePath = g[1],
                         !.hasSelections = TRUE, !.position = <<center0, 0>>]
    ELSE [Action0 EXCEPT !.kind = "setSelections", !.hasSelections = TRUE,
                         !.position = <<Min2(center0, Max2(0, Len(doc.lines) - 1)), 0>>]

ViewportOfMain(main, doc) ==
    IF MatchAnchored(main, SimpleCatItems).ok
    THEN SimpleCat(MatchAnchored(main, SimpleCatItems).groups, doc)
    ELSE IF MatchAnchored(main, ViewportItems).ok
    THEN ViewportAt(MatchAnchored(main, ViewportItems).groups, doc,
                    Max2(0, ((Number(MatchAnchored(main, ViewportItems).groups[2])
                              + Number(MatchAnchored(main, ViewportItems).groups[3]))
                             \div 2) - 1))
    ELSE NoAction

parseViewportFromCatCommand(command, doc) ==
    IF FirstClause(command) = <<>> THEN NoAction
    ELSE ViewportOfMain(FirstClause(command), doc)

RECURSIVE StripFlagArtifacts(_, _)
\* cmd.replace(/^-[A-Z]\s*/gm, ''): ^ is the start of the text or of a line
StripFlagArtifacts(s, i) ==
    IF i > Len(s) THEN <<>>
    ELSE IF /\ (i = 1 \/ s[i - 1] \in {NL, CR})
            /\ s[i] = "-"
            /\ i + 1 <= Len(s)
            /\ s[i + 1] \in CapitalSet
         THEN StripFlagArtifacts(s, SkipSet(s, i + 2, WhiteSpace))
         ELSE <<s[i]>> \o StripFlagArtifacts(s, i + 1)

sanitizeCommandForDisplay(cmd) ==
    Trim(ReplaceAll(
             ReplaceAll(
                 ReplaceAll(
                     ReplaceAll(StripFlagArtifacts(cmd, 1),
                                <<"'", "\"", "'", "\"", "'">>, <<"'">>),
                     <<"\\", "\\">>, <<"\\">>),
                 <<"\\", "n">>, <<NL>>),
             <<"\\", "t">>, <<"\t">>))

TerminalSendText(normalized) ==
    [Action0 EXCEPT !.kind = "terminalSendText",
                    !.text = sanitizeCommandForDisplay(normalized)]

\* parseAction from the edit parser's result on
ActionOfEdit(normalized, doc, editAction) ==
    IF editAction.kind # "none" THEN editAction
    ELSE IF parseViewportFromCatCommand(normalized, doc).kind # "none"
    THEN parseViewportFromCatCommand(normalized, doc)
    ELSE TerminalSendText(normalized)

ActionOfNormalized(normalized, doc) ==
    IF normalized = <<>> THEN NoAction
    ELSE ActionOfEdit(normalized, doc, parseEditFromSedCommand(normalized, doc))

ActionOfCommand(command, doc) ==
    IF ~command.some THEN NoAction
    ELSE ActionOfNormalized(Trim(StripThink(command.v, LowerText(command.v), 1)), doc)

\* parseAction with a document; NoAction is the undefined result
parseAction(raw, doc) == ActionOfCommand(extractBashCommand(raw), doc)

-----------------------------------------------------------------------------
(* The extension: the module-level state of extension.ts, held in ext.  A   *)
(* function of the source that writes it is an operator from the state it   *)
(* finds to the state it leaves.                                            *)

NoPreview == [visible |-> FALSE, action |-> NoAction]
NoSample == [some |-> FALSE, request |-> 0]

\* what executeAction last handed to an editor: the kind of the action, the
\* editor's file, and the request whose reply the action was parsed from
NoExecuted == [kind |-> "none", file |-> NoFile, request |-> 0]

\* the module's variables as their declarations initialise them.  requests
\* holds, per request id, the request autoShowNextAction issued; uiCalls the
\* preview calls of the last handler run; executing whether modelRun awaits
\* executeAction, picking whether showPendingAction does; shownRequest is the
\* request whose reply currentAction was parsed from
ExtInit ==
    [suggestionsEnabled |-> TRUE,
     suppressAutoPreview |-> FALSE,
     nextQueuedPredictionId |-> 0,
     pendingPredictions |-> <<>>,
     cancelledPredictionIds |-> {},
     latestRequestId |-> 0,
     currentAbortController |-> 0,
     requests |-> <<>>,
     preview |-> NoPreview,
     currentAction |-> NoAction,
     shownRequest |-> 0,
     executed |-> NoExecuted,
     picking |-> FALSE,
     pendingPreferenceSample |-> NoSample,
     preferenceLog |-> <<>>,
     errorMessages |-> 0,
     uiCalls |-> <<>>,
     executing |-> FALSE]

\* a handler run starts with no preview call made
Entered(x) == [x EXCEPT !.uiCalls = <<>>]

\* logPreferenceSample with enablePreferenceLogging, its default; a sample is
\* known by the request it was created for
logPreferenceSample(x, sample, outcome) ==
    [x EXCEPT !.preferenceLog =
                  Append(@, [request |-> sample.request, outcome |-> outcome])]

\* recordPreferenceOutcome leaving the sample pending after logging it
recordPreferenceOutcome_KeepPending(x, outcome) ==
    IF ~x.pendingPreferenceSample.some THEN x
    ELSE logPreferenceSample(x, x.pendingPreferenceSample, outcome)

recordPreferenceOutcome(x, outcome) ==
    IF ~x.pendingPreferenceSample.some THEN x
    ELSE [logPreferenceSample(x, x.pendingPreferenceSample, outcome)
             EXCEPT !.pendingPreferenceSample = NoSample]

markPendingAsIgnored(x) ==
    IF x.pendingPreferenceSample.some THEN recordPreferenceOutcome(x, "ignored") ELSE x

createPendingPreferenceSample(x, request) ==
    [x EXCEPT !.pendingPreferenceSample = [some |-> TRUE, request |-> request]]

\* previewManager.show(action) and currentAction = action
showPreviewUI(x, action) ==
    [x EXCEPT !.preview = [visible |-> TRUE, action |-> action],
              !.currentAction = action,
              !.uiCalls = Append(@, "show")]

\* previewManager.clear(), and suppressAutoPreview = true when suppress
hidePreviewUI(x, suppress) ==
    [x EXCEPT !.preview = NoPreview,
              !.suppressAutoPreview = suppress \/ @,
              !.uiCalls = Append(@, "hide")]

\* schedulePredictionRefresh that cancels no timer
QueuePrediction_Unbounded(x, id) ==
    [x EXCEPT !.nextQueuedPredictionId = id,
              !.pendingPredictions = Append(@, id)]

\* schedulePredictionRefresh from `const id = ++nextQueuedPredictionId` on:
\* the timer is queued, and with more than two queued the oldest is cancelled
QueuePrediction(x, id) ==
    IF Len(x.pendingPredictions) + 1 > 2
    THEN [x EXCEPT !.nextQueuedPredictionId = id,
                   !.pendingPredictions = Tail(Append(@, id)),
                   !.cancelledPredictionIds = @ \cup {Head(x.pendingPredictions)}]
    ELSE [x EXCEPT !.nextQueuedPredictionId = id,
                   !.pendingPredictions = Append(@, id)]

\* editor is vscode.window.activeTextEditor, text its document's text,
\* focused vscode.window.state.focused; the delay of the timer is not modelled
schedulePredictionRefresh(x, userRequested, editor, text, focused) ==
    IF ~x.suggestionsEnabled THEN x
    ELSE IF ~userRequested /\ x.suppressAutoPreview THEN x
    ELSE IF editor = NoFile THEN hidePreviewUI(x, FALSE)
    ELSE IF ~userRequested /\ (~focused \/ Len(text) = 0) THEN hidePreviewUI(x, FALSE)
    ELSE QueuePrediction(x, x.nextQueuedPredictionId + 1)

\* the first statements of the three editor listeners
EditorEvent(x, editor, text, focused) ==
    schedulePredictionRefresh([Entered(x) EXCEPT !.suppressAutoPreview = FALSE],
                              FALSE, editor, text, focused)

\* errors: the name and the message
NoError == [name |-> "", message |-> <<>>]
Error(message) == [name |-> "Error", message |-> message]

\* the messages of the errors the source and the run time raise
OperationAborted ==
    <<"T", "h", "e", " ", "o", "p", "e", "r", "a", "t", "i", "o", "n", " ",
      "w", "a", "s", " ", "a", "b", "o", "r", "t", "e", "d">>
SocketHangUp ==
    <<"s", "o", "c", "k", "e", "t", " ", "h", "a", "n", "g", " ", "u", "p">>
FailedToParse ==
    <<"F", "a", "i", "l", "e", "d", " ", "t", "o", " ", "p", "a", "r", "s",
      "e", " ", "r", "e", "s", "p", "o", "n", "s", "e">>
EmptyContent ==
    <<"E", "m", "p", "t", "y", " ", "m", "o", "d", "e", "l", " ", "c", "o",
      "n", "t", "e", "n", "t">>
NoValidAction ==
    <<"N", "o", " ", "v", "a", "l", "i", "d", " ", "a", "c", "t", "i", "o",
      "n", " ", "p", "a", "r", "s", "e", "d", " ", "f", "r", "o", "m", " ",
      "m", "o", "d", "e", "l", " ", "o", "u", "t", "p", "u", "t">>
OpcodeListEmpty ==
    <<"O", "p", "c", "o", "d", "e", " ", "l", "i", "s", "t", " ", "c", "a",
      "n", "n", "o", "t", " ", "b", "e", " ", "e", "m", "p", "t", "y">>

\* what a request made with options.signal fails with once the signal aborts
AbortError == [name |-> "AbortError", message |-> OperationAborted]

isAbort_Never(e) == FALSE

\* e?.name === 'AbortError' || /aborted/i.test(String(e?.message ?? ''))
isAbort(e) ==
    \/ e.name = "AbortError"
    \/ IndexFrom(LowerText(e.message), <<"a", "b", "o", "r", "t", "e", "d">>, 1) # 0

Abort_Ignored(requests, controller) == requests

\* currentAbortController?.abort(): controller is the id of the request the
\* controller belongs to, 0 when there is none; aborting a request that has
\* settled does nothing
abort(requests, controller) ==
    IF controller = 0 \/ requests[controller].status # "inflight" THEN requests
    ELSE [requests EXCEPT ![controller].status = "aborted"]

\* what requestModelActions ends with: a throw, or a return of an action or of
\* undefined; sampled when it has created the preference sample
Result0 == [threw |-> FALSE, error |-> NoError, action |-> NoAction, sampled |-> FALSE]
Threw(e) == [Result0 EXCEPT !.threw = TRUE, !.error = e]

\* the replies the model server can give: a failure of the transport, a body
\* that is not JSON, or a JSON body with its confidence (avgLogprob >=
\* minAvgLogprob) and its content
Reply0 == [kind |-> "json", error |-> NoError, confident |-> TRUE, content |-> <<>>]
TransportErrors == {Error(SocketHangUp)}
ReplyContents ==
    {<<"l", "s">>, <<>>, ThinkOpen \o ThinkClose,
     SedWord \o <<" ", "-", "i", " ", "'", "1", ",", "1", "d", "'", " ">> \o PathText("f")}
Replies ==
    {[Reply0 EXCEPT !.kind = "error", !.error = e] : e \in TransportErrors}
        \cup {[Reply0 EXCEPT !.kind = "error",
                             !.error = Error(FailedToParse)]}
        \cup {[Reply0 EXCEPT !.confident = FALSE, !.content = <<"l", "s">>]}
        \cup {[Reply0 EXCEPT !.content = content] : content \in ReplyContents}

\* requestModelActions from parseAction's result on
ResultOfAction(action) ==
    IF action.kind = "none"
    THEN Threw(Error(NoValidAction))
    ELSE [Result0 EXCEPT !.action = action, !.sampled = TRUE]

\* requestModelActions after the await of the reply
ResultOfReply(reply, doc) ==
    IF reply.kind = "error" THEN Threw(reply.error)
    ELSE IF ~reply.confident THEN Result0
    ELSE IF Trim(reply.content) = <<>> THEN Threw(Error(EmptyContent))
    ELSE ResultOfAction(parseAction(reply.content, doc))

\* autoShowNextAction after requestModelActions has returned next
ShowNext(x, requestId, next) ==
    IF requestId # x.latestRequestId THEN x
    ELSE IF next.kind # "none"
    THEN [showPreviewUI(x, next) EXCEPT !.shownRequest = requestId]
    ELSE hidePreviewUI(x, FALSE)

\* autoShowNextAction after the await: the end of requestModelActions
\* (markPendingAsIgnored and createPendingPreferenceSample before it returns an
\* action), then the request id check, or the catch clause
AfterRequest(x, requestId, result) ==
    IF result.threw
    THEN (IF isAbort(result.error) THEN x ELSE hidePreviewUI(x, FALSE))
    ELSE ShowNext(IF result.sampled
                  THEN createPendingPreferenceSample(markPendingAsIgnored(x), requestId)
                  ELSE x,
                  requestId, result.action)

\* a request: before is the manager when requestModelActions was called, sent
\* the manager finalizeForModel left; result is how it ended
NewRequest(editor, before, r) ==
    [status |-> IF r.threw THEN "settled" ELSE "inflight",
     result |-> IF r.threw THEN "threw" ELSE "",
     file |-> editor, before |-> before, sent |-> r.c]

\* autoShowNextAction from currentAbortController?.abort() to the call of
\* requestModelActions, r being what finalizeForModel did
IssueRequest(x, editor, before, r) ==
    [x EXCEPT !.requests = Append(abort(@, x.currentAbortController),
                                  NewRequest(editor, before, r)),
              !.currentAbortController = x.latestRequestId + 1,
              !.latestRequestId = @ + 1]

\* a throw of finalizeForModel rejects the call at once
StartRequest(x, editor, before, r) ==
    [x |-> IF r.threw
           THEN AfterRequest(IssueRequest(x, editor, before, r), x.latestRequestId + 1,
                             Threw(Error(OpcodeListEmpty)))
           ELSE IssueRequest(x, editor, before, r),
     c |-> r.c, threw |-> r.threw, called |-> TRUE]

\* autoShowNextAction up to its await: the extension state and the manager it
\* leaves, and whether finalizeForModel was called and threw
autoShowNextAction(x, c, editor) ==
    IF x.suppressAutoPreview \/ editor = NoFile
    THEN [x |-> x, c |-> c, threw |-> FALSE, called |-> FALSE]
    ELSE StartRequest(x, editor, c, finalizeForModel(c))

\* executeAction up to its await: the action is handed to the editor that is
\* active now (editor.edit, selections) or to the terminal; with no active
\* editor nothing is done.  The editor applies an edit and reports it through
\* onDidChangeTextDocument.
executeAction(x, action, editor) ==
    IF editor = NoFile THEN x
    ELSE [x EXCEPT !.executed = [kind |-> action.kind, file |-> editor,
                                 request |-> x.shownRequest]]

-----------------------------------------------------------------------------
(* The listeners, commands and callbacks that activate() registers.  Each   *)
(* is the whole run of its handler, up to its first await where it has one. *)
(* The actions of a specification bound how many of them run.               *)

\* offset of the end of line n (1-based) of text, the last line if n is larger
EndOfLine(text, n) ==
    LET lines == SplitNL(text)
        k == Min2(n, Len(lines))
    IN Len(JoinWith(SubSeq(lines, 1, k), <<NL>>))

\* lines the user edits and selects, per document
EditLines == "f" :> {1, 2, 3} @@ "g" :> {4, 5, 10, 15, 16}
SelectLines == {1, 12, 17}

\* texts the user types or pastes: a letter, a line break, and the two
\* characters backslash r
TypedTexts == {<<"x">>, <<NL>>, <<"\\", "r">>}

TerminalCommands == {<<"l", "s">>}
TerminalChunks == {<<"o">>, <<NL>>}

\* vscode.window.state.focused when an editor event arrives: the window has
\* the focus
WindowFocus == {TRUE}

\* activate(): the initial editor, if any, is captured
Init ==
    /\ docs = InitialDocs
    /\ reading = FALSE
    /\ nEvents = 0
    /\ lastCall = LastNone
    /\ ext = ExtInit
    /\ clock = Clock0
    /\ \E initialEditor \in {NoFile, "f"} :
          /\ active = initialEditor
          /\ IF initialEditor = NoFile
             THEN csm = NewManager /\ activatedFiles = {}
             ELSE /\ activatedFiles = {initialEditor}
                  /\ csm = handleTabEvent(NewManager, initialEditor,
                                          Snapshot(docs[initialEditor])).c
    /\ fin = <<>> /\ fout = <<>> /\ fpc = "idle"

\* the manager is left as the call left it, thrown or not
Returned(op, f, r) ==
    /\ csm' = r.c
    /\ lastCall' = Called(op, f, r.threw)

\* late: the listener ran after every timer set before it had expired
ReturnedContent(f, offset, length, newText, late, r) ==
    /\ csm' = r.c
    /\ lastCall' = [op |-> "handleContentEvent", file |-> f, threw |-> r.threw,
                    flushCalled |-> r.flushCalled, offset |-> offset,
                    length |-> length, newText |-> newText, late |-> late]

\* onDidChangeActiveTextEditor
onActiveChange(editor) ==
    /\ editor # active
    /\ active' = editor
    /\ \E focused \in WindowFocus :
          ext' = EditorEvent(ext, editor,
                             IF editor = NoFile THEN <<>> ELSE docs[editor], focused)
    /\ IF editor = NoFile
       THEN /\ lastCall' = Called("none", NoFile, FALSE)
            /\ UNCHANGED <<csm, activatedFiles>>
       ELSE /\ activatedFiles' = activatedFiles \cup {editor}
            /\ Returned("handleTabEvent", editor,
                        handleTabEvent(csm, editor,
                                       IF editor \notin activatedFiles
                                       THEN Snapshot(docs[editor]) ELSE NoSnapshot))
    /\ UNCHANGED <<docs, reading, harnessVars>>

\* onDidChangeTextDocument of the active document, one content change.  The
\* listener reads no clock.  The event is late when it arrives after a pause
\* of the user: the timers of schedulePredictionRefresh run PREDICTION_DEBOUNCE_MS
\* to PREDICTION_THROTTLE_MS, so that none is left waiting after a pause of a
\* second
onDocChangeAfter(late, offset, length, newText) ==
    /\ active # NoFile
    /\ late => ext.pendingPredictions = <<>>
    /\ offset + length <= Len(docs[active])
    /\ docs' = [docs EXCEPT ![active] =
                   Slice(@, 0, offset) \o newText \o Slice(@, offset + length, Len(@))]
    /\ \E focused \in WindowFocus :
          ext' = EditorEvent(ext, active, docs'[active], focused)
    /\ ReturnedContent(active, offset, length, newText, late,
                       handleContentEvent(csm, active, offset, length, newText))
    /\ UNCHANGED <<activatedFiles, active, reading, harnessVars>>

\* a content change in the course of typing
onDocChange(offset, length, newText) ==
    onDocChangeAfter(FALSE, offset, length, newText)

\* onDidChangeTextEditorSelection of the active editor, to the end of line n
onSelChange(n) ==
    /\ active # NoFile
    /\ \E focused \in WindowFocus :
          ext' = EditorEvent(ext, active, docs[active], focused)
    /\ csm' = handleSelectionEvent(csm, active, EndOfLine(docs[active], n))
    /\ lastCall' = [Called("handleSelectionEvent", active, FALSE)
                       EXCEPT !.offset = EndOfLine(docs[active], n)]
    /\ UNCHANGED <<activatedFiles, active, docs, reading, harnessVars>>

\* onDidChangeActiveTerminal with a terminal
onTerminalChange ==
    /\ Returned("handleTerminalFocusEvent", NoFile, handleTerminalFocusEvent(csm))
    /\ ext' = Entered(ext)
    /\ UNCHANGED <<activatedFiles, active, docs, reading, harnessVars>>

\* onDidStartTerminalShellExecution up to its first await
onTerminalCommand(commandLine) ==
    /\ Returned("handleTerminalCommandEvent", NoFile,
                handleTerminalCommandEvent(csm, commandLine))
    /\ reading' = ~lastCall'.threw
    /\ ext' = Entered(ext)
    /\ UNCHANGED <<activatedFiles, active, docs, harnessVars>>

\* one turn of the for-await loop over the execution's output
onTerminalData(data) ==
    /\ reading
    /\ csm' = handleTerminalOutputEvent(csm, data)
    /\ lastCall' = Called("handleTerminalOutputEvent", NoFile, FALSE)
    /\ ext' = Entered(ext)
    /\ UNCHANGED <<activatedFiles, active, docs, reading, harnessVars>>

\* crowd-pilot.clearContext
clearContext ==
    /\ csm' = reset(csm)
    /\ activatedFiles' = {}
    /\ lastCall' = Called("reset", NoFile, FALSE)
    /\ ext' = Entered(ext)
    /\ UNCHANGED <<active, docs, reading, harnessVars>>

AutoShown(res) ==
    /\ ext' = res.x
    /\ csm' = res.c
    /\ lastCall' = IF res.called THEN Called("finalizeForModel", NoFile, res.threw)
                   ELSE Called("none", NoFile, FALSE)

\* the timer callback of schedulePredictionRefresh.  The timers expire in the
\* order they were set, and a cancelled timer is cleared: the one that
\* expires is the oldest of pendingPredictions
predictionTimer ==
    /\ ext.pendingPredictions # <<>>
    /\ AutoShown(autoShowNextAction(
                     [Entered(ext) EXCEPT !.pendingPredictions = Tail(@)], csm, active))
    /\ UNCHANGED <<activatedFiles, active, docs, reading, harnessVars>>

\* how a settled request ended
ResultKind(result) ==
    IF result.threw
    THEN (IF result.error.name = "AbortError" THEN "cancelled" ELSE "failed")
    ELSE IF result.action.kind = "none" THEN "skipped" ELSE "action"

\* the continuation of autoShowNextAction for request id runs with result
Answered(x, id, result) ==
    [AfterRequest(x, id, result) EXCEPT !.requests[id].status = "settled",
                                        !.requests[id].result = ResultKind(result)]

\* the reply to a request that was not aborted arrives: the promise of
\* requestModelActions settles and autoShowNextAction runs to its end
modelResponse(id, reply) ==
    /\ ext.requests[id].status = "inflight"
    /\ ext' = Answered(Entered(ext), id,
                       ResultOfReply(reply, Document(ext.requests[id].file,
                                                     docs[ext.requests[id].file])))
    /\ lastCall' = Called("modelResponse", ext.requests[id].file, FALSE)
    /\ UNCHANGED <<csm, activatedFiles, active, docs, reading, harnessVars>>

\* the request of an aborted signal fails with an AbortError (or never
\* settles, when this step is not taken)
abortRejection(id) ==
    /\ ext.requests[id].status = "aborted"
    /\ ext' = Answered(Entered(ext), id, Threw(AbortError))
    /\ lastCall' = Called("abortRejection", ext.requests[id].file, FALSE)
    /\ UNCHANGED <<csm, activatedFiles, active, docs, reading, harnessVars>>

\* crowd-pilot.toggleSuggestions
Toggled(x) == IF ~x.suggestionsEnabled THEN hidePreviewUI(x, TRUE) ELSE x

toggleSuggestions ==
    /\ ext' = Toggled([Entered(ext) EXCEPT !.suggestionsEnabled = ~@])
    /\ lastCall' = Called("none", NoFile, FALSE)
    /\ UNCHANGED <<csm, activatedFiles, active, docs, reading, harnessVars>>

\* crowd-pilot.hideUi
hideUi ==
    /\ ext' = hidePreviewUI(recordPreferenceOutcome(Entered(ext), "rejected"), TRUE)
    /\ lastCall' = Called("none", NoFile, FALSE)
    /\ UNCHANGED <<csm, activatedFiles, active, docs, reading, harnessVars>>

\* crowd-pilot.modelRun up to `await executeAction(action)`, with an editor
\* and a visible preview.  A preview is visible only after showPreviewUI has
\* set currentAction, so the request of the branch `if (!action)` is never
\* made.  One run at a time is followed.
modelRun ==
    /\ active # NoFile
    /\ ext.preview.visible
    /\ ext.currentAction.kind # "none"
    /\ ~ext.executing
    /\ ext' = [executeAction(
                   hidePreviewUI(recordPreferenceOutcome(Entered(ext), "accepted"), FALSE),
                   ext.currentAction, active)
                  EXCEPT !.executing = TRUE]
    /\ lastCall' = Called("none", NoFile, FALSE)
    /\ UNCHANGED <<csm, activatedFiles, active, docs, reading, harnessVars>>

\* modelRun after executeAction: autoShowNextAction() when it resolved, the
\* error message of the catch clause when it rejected
modelRunResumed(resolved) ==
    /\ ext.executing
    /\ IF resolved
       THEN AutoShown(autoShowNextAction([Entered(ext) EXCEPT !.executing = FALSE],
                                         csm, active))
       ELSE /\ ext' = [Entered(ext) EXCEPT !.executing = FALSE, !.errorMessages = @ + 1]
            /\ lastCall' = Called("none", NoFile, FALSE)
            /\ UNCHANGED csm
    /\ UNCHANGED <<activatedFiles, active, docs, reading, harnessVars>>

\* crowd-pilot.showPendingAction from the result of the quick pick on, up to
\* `await executeAction(currentAction)` when the result is accept.
\* currentAction, once set, is never unset, so the test made when the command
\* was invoked still holds.
showPendingAction(accept) ==
    /\ ext.currentAction.kind # "none"
    /\ ~ext.picking
    /\ ext' = IF accept
              THEN [executeAction(
                        hidePreviewUI(recordPreferenceOutcome(Entered(ext), "accepted"),
                                      FALSE),
                        ext.currentAction, active)
                       EXCEPT !.picking = TRUE]
              ELSE hidePreviewUI(recordPreferenceOutcome(Entered(ext), "rejected"), TRUE)
    /\ lastCall' = Called("none", NoFile, FALSE)
    /\ UNCHANGED <<csm, activatedFiles, active, docs, reading, harnessVars>>

\* showPendingAction after executeAction: autoShowNextAction() when it
\* resolved; a rejection is handled by nobody
showPendingActionResumed(resolved) ==
    /\ ext.picking
    /\ IF resolved
       THEN AutoShown(autoShowNextAction([Entered(ext) EXCEPT !.picking = FALSE],
                                         csm, active))
       ELSE /\ ext' = [Entered(ext) EXCEPT !.picking = FALSE]
            /\ lastCall' = Called("none", NoFile, FALSE)
            /\ UNCHANGED csm
    /\ UNCHANGED <<activatedFiles, active, docs, reading, harnessVars>>

ActiveChange ==
    /\ nEvents < MaxEvents
    /\ \E editor \in Files \cup {NoFile} : onActiveChange(editor)
    /\ nEvents' = nEvents + 1
    /\ UNCHANGED clock

\* the user types or pastes at the end of a line
TypeText ==
    /\ nEvents < MaxEvents
    /\ active # NoFile
    /\ \E n \in EditLines[active], t \in TypedTexts :
          onDocChange(EndOfLine(docs[active], n), 0, t)
    /\ nEvents' = nEvents + 1
    /\ UNCHANGED clock

\* the user deletes the character at the end of a line (the line break)
DeleteChar ==
    /\ nEvents < MaxEvents
    /\ active # NoFile
    /\ \E n \in EditLines[active] : onDocChange(EndOfLine(docs[active], n), 1, <<>>)
    /\ nEvents' = nEvents + 1
    /\ UNCHANGED clock

SelChange ==
    /\ nEvents < MaxEvents
    /\ \E n \in SelectLines : onSelChange(n)
    /\ nEvents' = nEvents + 1
    /\ UNCHANGED clock

TerminalChange ==
    /\ nEvents < MaxEvents
    /\ onTerminalChange
    /\ nEvents' = nEvents + 1
    /\ UNCHANGED clock

TerminalCommand ==
    /\ nEvents < MaxEvents
    /\ \E commandLine \in TerminalCommands : onTerminalCommand(commandLine)
    /\ nEvents' = nEvents + 1
    /\ UNCHANGED clock

TerminalData ==
    /\ nEvents < MaxEvents
    /\ \E data \in TerminalChunks : onTerminalData(data)
    /\ nEvents' = nEvents + 1
    /\ UNCHANGED clock

ClearContext ==
    /\ nEvents < MaxEvents
    /\ clearContext
    /\ nEvents' = nEvents + 1
    /\ UNCHANGED clock

PredictionTimer ==
    /\ nEvents < MaxEvents
    /\ predictionTimer
    /\ nEvents' = nEvents + 1
    /\ UNCHANGED clock

\* the editor and the terminal in use while no reply of the model server
\* arrives and no command of the extension is invoked
Next ==
    \/ ActiveChange
    \/ TypeText
    \/ DeleteChar
    \/ SelChange
    \/ TerminalChange
    \/ TerminalCommand
    \/ TerminalData
    \/ ClearContext
    \/ PredictionTimer

Spec == Init /\ [][Next]_vars

-----------------------------------------------------------------------------
(* Claims about the coalescer and the transcript *)

IsPrefix(s, t) == Len(s) <= Len(t) /\ SubSeq(t, 1, Len(s)) = s

PendingFiles == {f \in Files : csm.pendingEditsBefore[f].some
                               \/ csm.pendingEditRegions[f].some}

\* C5: no sequence of events makes a flush raise "Opcode list cannot be
\* empty": computeChangedBlockLines is only called on a snapshot and a content
\* that differ in at least one line.  (The empty diff is the only throw of the
\* manager's methods.)
C5_NoEmptyDiffError == lastCall.threw = FALSE

FlushTriggers ==
    {"handleTabEvent", "handleTerminalFocusEvent", "handleTerminalCommandEvent",
     "finalizeForModel", "reset"}

ScriptLines(payload) ==
    SplitNL(ReplaceAll(payload, <<"'", "\"", "'", "\"", "'">>, <<"'">>))

\* sed's i, a, d and c on a file of lines; an address past the last line
\* selects nothing
ExecSed(lines, m) ==
    LET n == Len(lines)
    IN CASE m.shape = "a" -> lines \o ScriptLines(m.payload)
         [] m.shape = "i" ->
              IF m.s > n THEN lines
              ELSE SubSeq(lines, 1, m.s - 1) \o ScriptLines(m.payload)
                   \o SubSeq(lines, m.s, n)
         [] m.shape = "d" ->
              IF m.s > n THEN lines
              ELSE SubSeq(lines, 1, m.s - 1) \o SubSeq(lines, Min2(m.e, n) + 1, n)
         [] m.shape = "c" ->
              IF m.s > n THEN lines
              ELSE IF m.e > n THEN SubSeq(lines, 1, m.s - 1)
              ELSE SubSeq(lines, 1, m.s - 1) \o ScriptLines(m.payload)
                   \o SubSeq(lines, m.e + 1, n)

\* the lines a `cat -n` output shows; an empty output is read as one empty line
ShownLines(out) ==
    IF Len(out) = 0 THEN << <<>> >> ELSE [k \in 1..Len(out) |-> out[k].text]

RECURSIVE Replay(_, _, _, _)
\* the file a reader of the log reconstructs: every `cat -n f` shows the whole
\* file, every sed command on f edits it
Replay(msgs, f, i, lines) ==
    IF i > Len(msgs) THEN lines
    ELSE IF msgs[i].kind = "cat" /\ msgs[i].file = f
         THEN Replay(msgs, f, i + 2, ShownLines(msgs[i + 1].out))
         ELSE IF msgs[i].kind = "sed" /\ msgs[i].file = f
              THEN Replay(msgs, f, i + 1, ExecSed(lines, msgs[i]))
              ELSE Replay(msgs, f, i + 1, lines)

RECURSIVE DropBlankTail(_)
DropBlankTail(lines) ==
    IF Len(lines) > 0 /\ lines[Len(lines)] = <<>>
    THEN DropBlankTail(SubSeq(lines, 1, Len(lines) - 1)) ELSE lines

\* C4: for a captured file with nothing pending, executing the log's sed
\* commands on the content its `cat -n` capture shows gives the tracked
\* content, up to trailing blank lines.  Stated here for tracked contents
\* without carriage returns only.
C4_ReplayableTranscript ==
    \A f \in csm.filesOpenedInConversation :
        (f \notin PendingFiles /\ CR \notin {csm.fileStates[f][k] : k \in 1..Len(csm.fileStates[f])})
        => DropBlankTail(Replay(csm.messages, f, 1, <<>>))
             = DropBlankTail(SplitLines(csm.fileStates[f]))

\* whether the first touched line L lies within COALESCE_RADIUS of the region
WithinRadius(L, region) ==
    /\ region.start - COALESCE_RADIUS <= L
    /\ L <= region.end + COALESCE_RADIUS

\* one handleContentEvent on a file with a pending region: the first touched
\* line and the last one, from the arguments and the content before the call
TouchedStart == LineOfOffset(csm.fileStates[lastCall'.file], lastCall'.offset)
TouchedEnd ==
    TouchedStart
    + Max2(CountNL(lastCall'.newText),
           CountNL(Slice(csm.fileStates[lastCall'.file], lastCall'.offset,
                         lastCall'.offset + lastCall'.length)))

ContentEventOnPending ==
    /\ nEvents' = nEvents + 1
    /\ lastCall'.op = "handleContentEvent"
    /\ csm.pendingEditRegions[lastCall'.file].some

\* C6 as stated, for the calls that return: the change is merged (no flush, no
\* message appended, region becomes the union) iff s - R <= L <= e + R;
\* otherwise the pending edit is flushed before the change is recorded.
C6_AsStated_Step ==
    (ContentEventOnPending /\ ~lastCall'.threw) =>
        LET f == lastCall'.file
            region == csm.pendingEditRegions[f]
        IN IF WithinRadius(TouchedStart, region)
           THEN /\ ~lastCall'.flushCalled
                /\ csm'.messages = csm.messages
                /\ csm'.pendingEditRegions[f] =
                       Region(Min2(region.start, TouchedStart),
                              Max2(region.end, TouchedEnd))
           ELSE /\ lastCall'.flushCalled
                /\ csm'.pendingEditsBefore[f] = Snapshot(csm.fileStates[f])
                /\ csm'.pendingEditRegions[f] =
                       Region(TouchedStart, Max2(TouchedStart, TouchedEnd))

C6_AsStated == [][C6_AsStated_Step]_vars

\* C6, amended: the change is merged (flushPendingEditForFile is not called,
\* the snapshot is kept, the region becomes the union, and the only message
\* that can be appended is the buffered terminal output) iff
\* s - R <= L <= e + R; otherwise flushPendingEditForFile is called first, and
\* the change is recorded, as a new pending edit, only once that call has
\* returned: if it throws, nothing of the change is recorded.
C6_Coalescing_Step ==
    ContentEventOnPending =>
        LET f == lastCall'.file
            region == csm.pendingEditRegions[f]
        IN IF WithinRadius(TouchedStart, region)
           THEN /\ ~lastCall'.flushCalled
                /\ ~lastCall'.threw
                /\ csm'.messages = flushTerminalOutputBuffer(csm).messages
                /\ csm'.pendingEditsBefore[f] = csm.pendingEditsBefore[f]
                /\ csm'.pendingEditRegions[f] =
                       Region(Min2(region.start, TouchedStart),
                              Max2(region.end, TouchedEnd))
           ELSE /\ lastCall'.flushCalled
                /\ IF lastCall'.threw
                   THEN /\ csm'.fileStates = csm.fileStates
                        /\ csm'.pendingEditsBefore = csm.pendingEditsBefore
                        /\ csm'.pendingEditRegions = csm.pendingEditRegions
                   ELSE /\ csm'.pendingEditsBefore[f] = Snapshot(csm.fileStates[f])
                        /\ csm'.pendingEditRegions[f] =
                               Region(TouchedStart, Max2(TouchedStart, TouchedEnd))

C6_Coalescing == [][C6_Coalescing_Step]_vars

\* single-line edits at lines 10 and 10 + COALESCE_RADIUS have merged
C6_Witness ==
    /\ lastCall.op = "handleContentEvent"
    /\ ~lastCall.flushCalled
    /\ csm.pendingEditRegions[lastCall.file] = Region(10, 10 + COALESCE_RADIUS)

\* one handleSelectionEvent on a file without a pending edit
SelectionEventOnIdle ==
    /\ nEvents' = nEvents + 1
    /\ lastCall'.op = "handleSelectionEvent"
    /\ ~csm.pendingEditsBefore[lastCall'.file].some

\* the line of the cursor, in the tracked content before the call
CursorLine == LineOfOffset(csm.fileStates[lastCall'.file], lastCall'.offset)

\* the line lies in the last-emitted viewport
InsideViewport(L, vp) == vp.some /\ vp.end # 0 /\ vp.start <= L /\ L <= vp.end

\* {max(1, L - R), min(total, L + R)}
FreshViewport(L, total) ==
    Region(Max2(1, L - VIEWPORT_RADIUS), Min2(total, L + VIEWPORT_RADIUS))

\* the last two messages are the viewport read of f and its output
EndsWithViewport(msgs, f, vp) ==
    /\ Len(msgs) >= 2
    /\ msgs[Len(msgs) - 1].kind = "viewport"
    /\ msgs[Len(msgs) - 1].file = f
    /\ msgs[Len(msgs) - 1].vps = vp.start
    /\ msgs[Len(msgs) - 1].vpe = vp.end
    /\ msgs[Len(msgs)].kind = "stdout"

\* C15 as stated: inside the viewport nothing is appended and the viewport
\* stays; outside it, or without a viewport, the viewport becomes
\* {max(1, L - R), min(total, L + R)} and exactly the viewport read and its
\* output are appended.
C15_AsStated_Step ==
    SelectionEventOnIdle =>
        LET f == lastCall'.file
        IN IF InsideViewport(CursorLine, csm.perFileViewport[f])
           THEN /\ csm'.messages = csm.messages
                /\ csm'.perFileViewport = csm.perFileViewport
           ELSE /\ csm'.perFileViewport[f] =
                       FreshViewport(CursorLine, Len(SplitLines(csm.fileStates[f])))
                /\ Len(csm'.messages) = Len(csm.messages) + 2
                /\ EndsWithViewport(csm'.messages, f, csm'.perFileViewport[f])

C15_AsStated == [][C15_AsStated_Step]_vars

\* the messages a re-emission appends after the flushed terminal output: the
\* capture of the file when the conversation has not captured it, then the
\* viewport read and its output
ReemittedCount(c, f) == IF f \in c.filesOpenedInConversation THEN 2 ELSE 4

\* C15, amended: handleSelectionEvent on a file without a pending edit first
\* flushes the buffered terminal output into the log.  Inside the last-emitted
\* viewport it does nothing else: no viewport message, viewport unchanged.
\* Outside it, or without a viewport, it sets the viewport to
\* {max(1, L - R), min(total, L + R)} and appends the viewport read with its
\* output, preceded by the capture of the file (cat -n and its output) when
\* the conversation has not captured the file yet.
C15_Step ==
    SelectionEventOnIdle =>
        LET f == lastCall'.file
            base == flushTerminalOutputBuffer(csm)
        IN IF InsideViewport(CursorLine, csm.perFileViewport[f])
           THEN csm' = base
           ELSE /\ csm'.perFileViewport[f] =
                       FreshViewport(CursorLine, Len(SplitLines(csm.fileStates[f])))
                /\ Len(csm'.messages) = Len(base.messages) + ReemittedCount(csm, f)
                /\ IsPrefix(base.messages, csm'.messages)
                /\ EndsWithViewport(csm'.messages, f, csm'.perFileViewport[f])
                /\ csm'.fileStates = csm.fileStates

C15_ViewportSuppression == [][C15_Step]_vars

\* the viewport of g was lines 1 to 11 and the cursor went to line 12: the
\* viewport read of lines 2 to 17 is the last thing in the log
C15_Witness ==
    /\ lastCall.op = "handleSelectionEvent"
    /\ lastCall.file = "g"
    /\ csm.perFileViewport["g"] = Region(2, 17)
    /\ EndsWithViewport(csm.messages, "g", Region(2, 17))

-----------------------------------------------------------------------------
(* The diff on bounded line sequences *)

DiffLineSet == {<<>>, <<"a">>, <<"b">>}
DiffLineSeqs == UNION {[1..k -> DiffLineSet] : k \in 0..MaxDiffLen}

InitDiff ==
    /\ CsmInit
    /\ ext = ExtInit
    /\ fin \in [a : DiffLineSeqs, b : DiffLineSeqs]
    /\ fout = [blocks |-> <<>>, opcodes |-> <<>>, block |-> EmptyDiffError]
    /\ fpc = "diff_in"

DiffRun ==
    /\ fpc = "diff_in"
    /\ fout' = [blocks |-> getMatchingBlocks(fin.a, fin.b),
                opcodes |-> getOpcodes(fin.a, fin.b),
                block |-> ChangedBlockOfLines(fin.a, fin.b)]
    /\ fpc' = "diff_out"
    /\ UNCHANGED <<fin, csmVars>>

NextDiff == DiffRun

SpecDiff == InitDiff /\ [][NextDiff]_vars

\* A with lines startBefore..endBefore (1-based, inclusive) replaced by the
\* replacement lines; an empty range inserts before line startBefore
ApplyBlock(A, blk) ==
    Slice(A, 0, blk.startBefore - 1) \o blk.replacementLines
        \o Slice(A, blk.endBefore, Len(A))

\* C1: for all line sequences A # B, replacing lines startBefore..endBefore
\* of A by replacementLines of the block computed for (A, B) yields B, and
\* the range lies inside A.
C1_DiffRoundTrip ==
    (fpc = "diff_out" /\ fin.a # fin.b) =>
        /\ fout.block.error = ""
        /\ 1 <= fout.block.startBefore
        /\ fout.block.startBefore - 1 <= fout.block.endBefore
        /\ fout.block.endBefore <= Len(fin.a)
        /\ ApplyBlock(fin.a, fout.block) = fin.b

\* C1 witness: a diff with two separate hunks, coarsened into one block
C1_Witness ==
    /\ fpc = "diff_out"
    /\ fin.a # fin.b
    /\ Len(NonEqual(fout.opcodes)) >= 2

-----------------------------------------------------------------------------
(* The codec on bounded documents: an edit coalesced from the tracked       *)
(* content before to the tracked content after is flushed, and the text of  *)
(* the emitted command is parsed against the before document                *)

\* the lines of the documents: plain lines, and lines with the characters
\* the shell and sed give a meaning to
PlainLineSet == {<<>>, <<"a">>, <<"b">>}
CodecLineSet ==
    PlainLineSet \cup
        {<<"'">>, <<"\"">>, <<"\\">>, <<"\\", "n">>, <<"\\", "t">>,
         <<"&", "&">>, <<"|", "|">>, <<"|">>}

LineSeqs(set, n) == UNION {[1..k -> set] : k \in 1..n}

\* the manager after handleContentEvent calls on the captured file f turned
\* its tracked content from before into after
PendingManager(before, after) ==
    [NewManager EXCEPT !.fileStates["f"] = after,
                       !.filesOpenedInConversation = {"f"},
                       !.pendingEditsBefore["f"] = Snapshot(before),
                       !.pendingEditRegions["f"] = Region(1, 1),
                       !.pendingEditsKeys = <<"f">>]

NoCodec == [emitted |-> FALSE, msg |-> Msg0, block |-> EmptyDiffError, action |-> NoAction]

\* the sed message is the one before the last of the two messages a flush
\* appends
CodecOf(before, after, r) ==
    IF r.threw \/ Len(r.c.messages) < 2 THEN NoCodec
    ELSE [emitted |-> TRUE,
          msg |-> r.c.messages[Len(r.c.messages) - 1],
          block |-> computeChangedBlockLines(before, after),
          action |-> parseAction(MessageText(r.c.messages[Len(r.c.messages) - 1]),
                                 Document("f", before))]

InitCodec ==
    /\ CsmInit
    /\ ext = ExtInit
    /\ fin \in [before : LineSeqs(PlainLineSet, MaxPlainLines),
                after : LineSeqs(CodecLineSet, MaxCodecLines)
                            \cup LineSeqs(PlainLineSet, MaxPlainLines)]
    /\ fout = NoCodec
    /\ fpc = "codec_in"

CodecRun ==
    /\ fpc = "codec_in"
    /\ fout' = CodecOf(JoinWith(fin.before, <<NL>>), JoinWith(fin.after, <<NL>>),
                       flushPendingEditForFile(
                           PendingManager(JoinWith(fin.before, <<NL>>),
                                          JoinWith(fin.after, <<NL>>)), "f"))
    /\ fpc' = "codec_out"
    /\ UNCHANGED <<fin, csmVars>>

NextCodec == CodecRun

SpecCodec == InitCodec /\ [][NextCodec]_vars

\* the position after lines up to line e (1-based) of a document of n lines
\* whose last line has len characters: the start of line e + 1, or the end
\* of the last line
AfterLine(e, n, len) == IF e < n THEN <<e, 0>> ELSE <<n - 1, len>>

\* C2: parsing the text of an emitted edit command against the before
\* document returns an edit of the same shape and coordinates: S,Ec and S,Ed
\* give a replace and a delete of the range from (S-1, 0) over lines S..E, Si
\* an insert at (S-1, 0), $a an insert at the end of the file, whatever the
\* line contents.
C2_CodecInverse ==
    (fpc = "codec_out" /\ fout.emitted) =>
        CASE fout.msg.shape = "c" ->
                /\ fout.action.kind = "editReplace"
                /\ fout.action.start = <<fout.msg.s - 1, 0>>
                /\ fout.action.end =
                       AfterLine(fout.msg.e, Len(fin.before),
                                 Len(fin.before[Len(fin.before)]))
          [] fout.msg.shape = "d" ->
                /\ fout.action.kind = "editDelete"
                /\ fout.action.start = <<fout.msg.s - 1, 0>>
                /\ fout.action.end =
                       AfterLine(fout.msg.e, Len(fin.before),
                                 Len(fin.before[Len(fin.before)]))
          [] fout.msg.shape = "i" ->
                /\ fout.action.kind = "editInsert"
                /\ fout.action.position = <<fout.msg.s - 1, 0>>
          [] OTHER ->
                /\ fout.action.kind = "editInsert"
                /\ fout.action.position = <<Len(fin.before), 0>>

\* the lines of the text of a parsed edit: the text without the newline the
\* parser ends it with and, for an append, the one it starts it with
RecoveredLines(shape, text) ==
    SplitNL(SubSeq(text, IF shape = "a" THEN 2 ELSE 1, Len(text) - 1))

HasQuoteOrBackslash(line) == \E i \in 1..Len(line) : line[i] \in {"'", "\\"}

\* C3: when the emitted command parses as an edit, every replacement line
\* that holds a single quote or a backslash (the two-character sequences
\* backslash-n and backslash-t included) is recovered as it was.
C3_EscapingSafety ==
    (/\ fpc = "codec_out"
     /\ fout.emitted
     /\ fout.action.kind \in {"editReplace", "editInsert"}) =>
        \A k \in 1..Len(fout.block.replacementLines) :
            HasQuoteOrBackslash(fout.block.replacementLines[k]) =>
                /\ k <= Len(RecoveredLines(fout.msg.shape, fout.action.text))
                /\ RecoveredLines(fout.msg.shape, fout.action.text)[k]
                       = fout.block.replacementLines[k]

-----------------------------------------------------------------------------
(* The extension with the model server answering and the commands invoked.  *)
(* The user's part is kept small: the editors f, g and none, a letter typed *)
(* at the end of line 1, a selection of line 1.                             *)

MaxExtEvents == 3
MaxRequests == 3

ExtActiveChange ==
    /\ nEvents < MaxExtEvents
    /\ \E editor \in Files \cup {NoFile} : onActiveChange(editor)
    /\ nEvents' = nEvents + 1
    /\ UNCHANGED clock

ExtTypeText ==
    /\ nEvents < MaxExtEvents
    /\ active # NoFile
    /\ \E late \in BOOLEAN :
          onDocChangeAfter(late, EndOfLine(docs[active], 1), 0, <<"x">>)
    /\ nEvents' = nEvents + 1
    /\ UNCHANGED clock

ExtSelChange ==
    /\ nEvents < MaxExtEvents
    /\ onSelChange(1)
    /\ nEvents' = nEvents + 1
    /\ UNCHANGED clock

ToggleSuggestions ==
    /\ nEvents < MaxExtEvents
    /\ toggleSuggestions
    /\ nEvents' = nEvents + 1
    /\ UNCHANGED clock

HideUi ==
    /\ nEvents < MaxExtEvents
    /\ hideUi
    /\ nEvents' = nEvents + 1
    /\ UNCHANGED clock

ModelRun ==
    /\ nEvents < MaxExtEvents
    /\ modelRun
    /\ nEvents' = nEvents + 1
    /\ UNCHANGED clock

ModelRunResumed ==
    /\ ext.latestRequestId < MaxRequests
    /\ \E resolved \in BOOLEAN : modelRunResumed(resolved)
    /\ UNCHANGED <<nEvents, clock>>

ShowPendingAction ==
    /\ nEvents < MaxExtEvents
    /\ \E accept \in BOOLEAN : showPendingAction(accept)
    /\ nEvents' = nEvents + 1
    /\ UNCHANGED clock

ShowPendingActionResumed ==
    /\ ext.latestRequestId < MaxRequests
    /\ \E resolved \in BOOLEAN : showPendingActionResumed(resolved)
    /\ UNCHANGED <<nEvents, clock>>

ExtPredictionTimer ==
    /\ ext.latestRequestId < MaxRequests
    /\ predictionTimer
    /\ UNCHANGED <<nEvents, clock>>

ModelResponse ==
    /\ \E id \in 1..Len(ext.requests), reply \in Replies : modelResponse(id, reply)
    /\ UNCHANGED <<nEvents, clock>>

AbortRejection ==
    /\ \E id \in 1..Len(ext.requests) : abortRejection(id)
    /\ UNCHANGED <<nEvents, clock>>

NextExt ==
    \/ ExtActiveChange
    \/ ExtTypeText
    \/ ExtSelChange
    \/ ToggleSuggestions
    \/ HideUi
    \/ ModelRun
    \/ ModelRunResumed
    \/ ShowPendingAction
    \/ ShowPendingActionResumed
    \/ ExtPredictionTimer
    \/ ModelResponse
    \/ AbortRejection

SpecExt == Init /\ [][NextExt]_vars

-----------------------------------------------------------------------------
(* Claims about the request life cycle *)

RequestIds == 1..Len(ext.requests)

\* this step is autoShowNextAction issuing a request
Issued == ext'.latestRequestId # ext.latestRequestId

\* this step handles the end of request id: its reply, or the rejection of
\* its aborted signal
SettledNow(id) ==
    /\ ext.requests[id].status # "settled"
    /\ ext'.requests[id].status = "settled"

\* C8: last request wins.  A step in which autoShowNextAction issues a request
\* leaves no earlier request in flight (each is settled or aborted), and a
\* step that handles the end of a request other than the latest one makes no
\* preview call and leaves the preview and currentAction as they were.
C8_Step ==
    /\ Issued => \A id \in RequestIds : ext'.requests[id].status # "inflight"
    /\ \A id \in RequestIds :
          (SettledNow(id) /\ id # ext.latestRequestId) =>
              /\ ext'.uiCalls = <<>>
              /\ ext'.preview = ext.preview
              /\ ext'.currentAction = ext.currentAction

C8_LastRequestWins == [][C8_Step]_vars

\* the rejection of a superseded request has been handled while the request
\* that superseded it is in flight
C8_Witness ==
    /\ lastCall.op = "abortRejection"
    /\ ext.latestRequestId > 1
    /\ ext.requests[ext.latestRequestId - 1].result = "cancelled"
    /\ ext.requests[ext.latestRequestId].status = "inflight"

\* this step handles the failure of request id, sent and not aborted: a
\* transport error, a body that is not JSON, an empty content or a content
\* with no action
FailedNow(id) ==
    /\ ext.requests[id].status = "inflight"
    /\ ext'.requests[id].result = "failed"

\* C9 as stated: when a request fails and no handler has changed the manager
\* since it was sent, the manager is what it was when requestModelActions was
\* called.
C9_AsStated_Step ==
    \A id \in RequestIds :
        (FailedNow(id) /\ csm = ext.requests[id].sent) =>
            csm' = ext.requests[id].before

C9_AsStated == [][C9_AsStated_Step]_vars

\* C9, amended: requestModelActions first calls finalizeForModel, and what
\* that call did stays whether the request fails or not: a step that issues
\* a request leaves the tracked file contents as they were, only appends to
\* the message log and, when a request is sent, leaves no pending edit and an
\* empty terminal output buffer.  The step that handles the failure of a
\* request leaves the manager exactly as it finds it.
C9_Step ==
    /\ Issued =>
          /\ ext'.requests[ext'.latestRequestId].before = csm
          /\ ext'.requests[ext'.latestRequestId].sent = csm'
          /\ csm'.fileStates = csm.fileStates
          /\ IsPrefix(csm.messages, csm'.messages)
          /\ ext'.requests[ext'.latestRequestId].status = "inflight" =>
                /\ \A f \in Files : ~csm'.pendingEditsBefore[f].some
                /\ \A f \in Files : ~csm'.pendingEditRegions[f].some
                /\ csm'.terminalOutputBuffer = <<>>
    /\ \A id \in RequestIds : FailedNow(id) => csm' = csm

C9_FailedRequest == [][C9_Step]_vars

\* the latest request has failed, and finalizeForModel had flushed a pending
\* edit when it was sent
C9_Witness ==
    /\ lastCall.op = "modelResponse"
    /\ ext.latestRequestId > 0
    /\ ext.requests[ext.latestRequestId].result = "failed"
    /\ ext.requests[ext.latestRequestId].before # ext.requests[ext.latestRequestId].sent
    /\ csm = ext.requests[ext.latestRequestId].sent

\* C10: cancellation is silent.  The step that handles the rejection of a
\* request aborted by a newer one shows no error message, makes no preview
\* call, leaves the preview and currentAction as they were, and neither
\* creates nor logs a preference sample.
C10_Step ==
    \A id \in RequestIds :
        (ext.requests[id].status = "aborted" /\ SettledNow(id)) =>
            /\ ext'.errorMessages = ext.errorMessages
            /\ ext'.uiCalls = <<>>
            /\ ext'.preview = ext.preview
            /\ ext'.currentAction = ext.currentAction
            /\ ext'.pendingPreferenceSample = ext.pendingPreferenceSample
            /\ ext'.preferenceLog = ext.preferenceLog

C10_SilentCancellation == [][C10_Step]_vars

\* the rejection of an aborted request has been handled while a preview is
\* shown and its preference sample is pending
C10_Witness ==
    /\ lastCall.op = "abortRejection"
    /\ ext.preview.visible
    /\ ext.currentAction.kind # "none"
    /\ ext.pendingPreferenceSample.some
    /\ \E id \in RequestIds : ext.requests[id].result = "cancelled"

-----------------------------------------------------------------------------
(* The parser on bounded replies: a reply is built from its parts, a sed    *)
(* command first or another text, and parsed against the document f         *)

MaxParseLine == 3
MaxParseLines == 2

\* what precedes the script of a sed command
SedFlagTexts ==
    {<<"-", "i", " ">>, <<"-", "E", " ", "-", "i", " ">>, <<"-", "i", " ", "-", "n", " ">>}

\* sed FLAGS 'SCRIPT' PATH
SedCommandText(flags, script, path) ==
    SedWord \o <<" ">> \o flags \o <<"'">> \o script \o <<"'", " ">> \o PathText(path)

\* a second command on the next line: sed -i '1,1d' f
SecondSedText == <<NL>> \o SedCommandText(<<"-", "i", " ">>, <<"1", ",", "1", "d">>, "f")

\* what follows the first command: nothing, the viewport read of an assistant
\* message, or a second command
FollowText(follow, path) ==
    CASE follow = "viewport" ->
            <<" ", "&", "&", " ">> \o CatN \o PathText(path)
                \o ViewportPipeText([vps |-> 1, vpe |-> 2])
      [] follow = "second" -> SecondSedText
      [] OTHER -> <<>>

\* texts that hold no sed edit command
OtherTexts ==
    {<<>>, <<" ">>, <<"l", "s">>, ThinkOpen \o <<"x">> \o ThinkClose,
     ThinkOpen \o <<"x">> \o ThinkClose \o <<"l", "s">>,
     CatN \o PathText("f"), CatN \o PathText("g"),
     CatN \o PathText("f") \o ViewportPipeText([vps |-> 1, vpe |-> 3]),
     CatN \o PathText("g") \o ViewportPipeText([vps |-> 1, vpe |-> 3]),
     <<"e", "c", "h", "o", " ", "a", "\\", "n", "b">>,
     <<"e", "c", "h", "o", " ", "'", "a", "'", "\"", "'", "\"", "'", "b", "'">>,
     <<"-", "E", " ", "l", "s">>}

\* payloads of an append: one line, none, two lines, a line that ends in a
\* line break, the two characters backslash n, the shell's escape of a
\* quote, and a line that holds &&
AppendPayloads ==
    {<<"x">>, <<>>, <<"x", NL, "y">>, <<"x", NL>>, <<"x", "\\", "n", "y">>,
     <<"a", "'", "\"", "'", "\"", "'", "b">>, <<"a", " ", "&", "&", " ", "b">>}

Reply0Parts ==
    [form |-> "other", flags |-> <<>>, shape |-> "d", s |-> 0, e |-> 0,
     payload |-> <<>>, path |-> "f", follow |-> "none", fenced |-> FALSE,
     lead |-> FALSE, text |-> <<>>]

SedParts ==
    {[Reply0Parts EXCEPT !.form = "sed", !.flags = flags, !.shape = shape, !.s = s,
                         !.e = e, !.payload = <<"x">>, !.path = path,
                         !.follow = follow, !.fenced = fenced] :
        flags \in SedFlagTexts, shape \in {"d", "c"}, s \in 0..MaxParseLine,
        e \in 0..MaxParseLine, path \in Files,
        follow \in {"none", "viewport", "second"}, fenced \in BOOLEAN}
    \cup
    {[Reply0Parts EXCEPT !.form = "sed", !.flags = flags, !.shape = shape, !.s = s,
                         !.payload = <<"x">>, !.path = path,
                         !.follow = follow, !.fenced = fenced] :
        flags \in SedFlagTexts, shape \in {"i", "a"}, s \in 0..MaxParseLine,
        path \in Files,
        follow \in {"none", "viewport", "second"}, fenced \in BOOLEAN}
    \cup
    {[Reply0Parts EXCEPT !.form = "sed", !.flags = <<"-", "i", " ">>, !.shape = "a",
                         !.payload = payload, !.follow = follow,
                         !.fenced = fenced] :
        payload \in AppendPayloads, follow \in {"none", "viewport"},
        fenced \in BOOLEAN}

OtherParts ==
    {[Reply0Parts EXCEPT !.text = text, !.fenced = fenced, !.lead = lead] :
        text \in OtherTexts, fenced \in BOOLEAN, lead \in BOOLEAN}

\* the command the parts stand for
PartsCommand(p) ==
    IF p.form = "sed"
    THEN SedCommandText(p.flags, SedScriptText(p), p.path) \o FollowText(p.follow, p.path)
    ELSE p.text

\* the command of a fenced block that comes first in a reply
LeadText == <<"p", "w", "d">>

\* the reply of the model: the command, in a bash fence or bare, with or
\* without an earlier fenced block
ReplyText(p) ==
    (IF p.lead THEN fencedBlock(Bash, LeadText) ELSE <<>>)
        \o (IF p.fenced THEN fencedBlock(Bash, PartsCommand(p)) ELSE PartsCommand(p))

ParseLineSet == {<<>>, <<"a">>}

InitParse ==
    /\ CsmInit
    /\ ext = ExtInit
    /\ fin \in [parts : SedParts \cup OtherParts,
                lines : LineSeqs(ParseLineSet, MaxParseLines)]
    /\ fout = NoAction
    /\ fpc = "parse_in"

ParseRun ==
    /\ fpc = "parse_in"
    /\ fout' = parseAction(ReplyText(fin.parts),
                           Document("f", JoinWith(fin.lines, <<NL>>)))
    /\ fpc' = "parse_out"
    /\ UNCHANGED <<fin, csmVars>>

NextParse == ParseRun

SpecParse == InitParse /\ [][NextParse]_vars

EditKinds == {"editInsert", "editDelete", "editReplace"}

\* C11: a reply whose sed edit command targets a path other than the
\* document's is never parsed into an editInsert, editDelete or editReplace:
\* a structured edit is returned only if the target file of the reply's sed
\* command is the document's path.
C11_PathMismatch ==
    (fpc = "parse_out" /\ fin.parts.form = "sed" /\ fout.kind \in EditKinds)
        => fin.parts.path = "f"

\* C12: an edit is never applied to the wrong buffer.  Whenever executeAction
\* has handed an editInsert, editDelete or editReplace action to an editor,
\* that editor's document is the one that was active when the action was
\* parsed, the document whose path the sed command targeted.
C12_RightBuffer ==
    ext.executed.kind \in EditKinds =>
        ext.executed.file = ext.requests[ext.executed.request].file

\* the command of a reply after extraction, removal of the think spans and
\* trimming; empty when nothing is extracted
NormalizedOf(command) ==
    IF ~command.some THEN <<>>
    ELSE Trim(StripThink(command.v, LowerText(command.v), 1))

ParsedDocument == Document("f", JoinWith(fin.lines, <<NL>>))

\* neither the edit patterns nor the viewport patterns match the text
NoPatternMatches(normalized, doc) ==
    /\ parseEditFromSedCommand(normalized, doc).kind = "none"
    /\ parseViewportFromCatCommand(normalized, doc).kind = "none"

\* the claim for a reply whose normalized command is given
DecoderTotalFor(normalized) ==
    /\ (normalized # <<>>) <=> (fout.kind # "none")
    /\ (normalized # <<>> /\ NoPatternMatches(normalized, ParsedDocument)) =>
          /\ fout.kind = "terminalSendText"
          /\ fout.text = normalized

\* C13: parseAction returns an action exactly when the command of the reply
\* is non-empty after extraction, removal of <think> spans and trimming; when
\* no edit pattern and no viewport pattern matches it, the action is
\* terminalSendText and its text is the entire normalized text.
C13_DecoderTotal ==
    fpc = "parse_out" =>
        DecoderTotalFor(NormalizedOf(extractBashCommand(ReplyText(fin.parts))))

\* position p is not after position q
PosLeq(p, q) == p[1] < q[1] \/ (p[1] = q[1] /\ p[2] <= q[2])

\* the end of the last line of a document
EndOfDocument(doc) == <<Len(doc.lines) - 1, Len(doc.lines[Len(doc.lines)])>>

\* the positions of an edit action lie on lines of the document, and the
\* range of a deletion or replacement does not end before it starts
PositionsInside(action, doc) ==
    IF action.kind = "editInsert" THEN action.position[1] <= Len(doc.lines) - 1
    ELSE /\ action.start[1] <= Len(doc.lines) - 1
         /\ action.end[1] <= Len(doc.lines) - 1
         /\ PosLeq(action.start, action.end)

\* the sed command of the parts edits at the end of a document of n lines
AtEndOfFile(p, n) ==
    \/ p.shape = "a"
    \/ p.shape \in {"d", "c"} /\ (p.e >= n \/ p.s > n)

\* an edit at the end of the file is anchored at the end of the last line
AnchoredAtEnd(action, doc) ==
    IF action.kind = "editInsert" THEN action.position = EndOfDocument(doc)
    ELSE action.end = EndOfDocument(doc)

-----------------------------------------------------------------------------
(* Context window truncation on bounded message lists *)

MaxMessages == 5
MaxContentLen == 2
MaxTokens == 3
CharsPerToken == 2

\* the token estimate of a text: proportional to its length, rounded up
estimateTokens(content) == (Len(content) + CharsPerToken - 1) \div CharsPerToken

RECURSIVE SumTokens(_)
SumTokens(messages) ==
    IF messages = <<>> THEN 0
    ELSE estimateTokens(Head(messages).content) + SumTokens(Tail(messages))

halfIndex_Floor(conversationMessages) == Len(conversationMessages) \div 2

halfIndex(conversationMessages) == (Len(conversationMessages) + 1) \div 2

truncateToContextLimit_NoSystem(messages, maxTokens) ==
    IF messages = <<>> THEN messages
    ELSE IF SumTokens(Tail(messages))
                <= maxTokens - estimateTokens(messages[1].content)
         THEN messages
         ELSE Slice(Tail(messages), halfIndex(Tail(messages)),
                    Len(Tail(messages)))

\* truncation that drops the newest half instead of the oldest
truncateToContextLimit_DropNewest(messages, maxTokens) ==
    IF messages = <<>> THEN messages
    ELSE IF SumTokens(Tail(messages))
                <= maxTokens - estimateTokens(messages[1].content)
         THEN messages
         ELSE <<messages[1]>>
                \o Slice(Tail(messages), 0,
                         Len(Tail(messages)) - halfIndex(Tail(messages)))

truncateToContextLimit(messages, maxTokens) ==
    IF messages = <<>> THEN messages
    ELSE IF SumTokens(Tail(messages))
                <= maxTokens - estimateTokens(messages[1].content)
         THEN messages
         ELSE <<messages[1]>>
                \o Slice(Tail(messages), halfIndex(Tail(messages)),
                         Len(Tail(messages)))

ContentChars == {"a", "b"}
Contents == UNION {[1..k -> ContentChars] : k \in 0..MaxContentLen}

\* the system prompt first, then the accumulated messages in order: each
\* command of the assistant and, after it, the output that answers it
RoleAt(i) ==
    IF i = 1 THEN "system" ELSE IF i % 2 = 0 THEN "assistant" ELSE "user"

\* the list of the k messages whose contents are c[1], ..., c[k]
MessageList(k, c) == [i \in 1..k |-> [role |-> RoleAt(i), content |-> c[i]]]

InitTrunc ==
    /\ CsmInit
    /\ ext = ExtInit
    /\ \E k \in 0..MaxMessages :
          \E c \in [1..k -> Contents] :
             \E maxTokens \in 0..MaxTokens :
                fin = [messages |-> MessageList(k, c), maxTokens |-> maxTokens]
    /\ fout = <<>>
    /\ fpc = "trunc_in"

TruncRun ==
    /\ fpc = "trunc_in"
    /\ fout' = truncateToContextLimit(fin.messages, fin.maxTokens)
    /\ fpc' = "trunc_out"
    /\ UNCHANGED <<fin, csmVars>>

NextTrunc == TruncRun

SpecTrunc == InitTrunc /\ [][NextTrunc]_vars

ConversationOf(messages) == Tail(messages)

OverBudget ==
    /\ fin.messages # <<>>
    /\ SumTokens(ConversationOf(fin.messages))
          > fin.maxTokens - estimateTokens(fin.messages[1].content)

\* C16: for every non-empty message list and every maxTokens the result is
\* messages[0], the system prompt, followed by a contiguous suffix of the
\* other messages in their original order; the system message is never
\* dropped or moved.
C16_PrefixProperty ==
    (fpc = "trunc_out" /\ fin.messages # <<>>) =>
        /\ fout # <<>>
        /\ fout[1] = fin.messages[1]
        /\ \E k \in 0..Len(ConversationOf(fin.messages)) :
              Tail(fout) = Slice(ConversationOf(fin.messages), k,
                                 Len(ConversationOf(fin.messages)))

\* C16 witness: an over-budget list with distinct messages lost its oldest
\* messages and kept the system prompt
C16_Witness ==
    /\ fpc = "trunc_out"
    /\ OverBudget
    /\ Len(fin.messages) = MaxMessages
    /\ fin.messages[2].content # fin.messages[4].content
    /\ Len(fout) < Len(fin.messages)
    /\ fout[1].role = "system"

\* C17: when the summed estimate of the n non-system messages exceeds
\* maxTokens minus the system prompt's estimate, exactly the oldest
\* ceil(n/2) of them are dropped as one prefix and the other floor(n/2) are
\* kept; otherwise the input list is returned unchanged.
C17_DropHalf ==
    fpc = "trunc_out" =>
        IF OverBudget
        THEN /\ Len(fout) = 1 + Len(ConversationOf(fin.messages)) \div 2
             /\ Len(ConversationOf(fin.messages)) - Len(Tail(fout))
                   = (Len(ConversationOf(fin.messages)) + 1) \div 2
             /\ Tail(fout)
                   = Slice(ConversationOf(fin.messages),
                           (Len(ConversationOf(fin.messages)) + 1) \div 2,
                           Len(ConversationOf(fin.messages)))
        ELSE fout = fin.messages

\* C17 witness: three non-system messages over budget, two dropped, one kept
C17_Witness ==
    /\ fpc = "trunc_out"
    /\ OverBudget
    /\ Len(fin.messages) = 4
    /\ Len(fout) = 2
    /\ fout[2] = fin.messages[4]

\* C18: for every list whose system prompt alone fits in maxTokens, the
\* returned list's estimated cost, system prompt and kept messages together,
\* is at most maxTokens.
C18_BudgetEnforced ==
    (/\ fpc = "trunc_out"
     /\ fin.messages # <<>>
     /\ estimateTokens(fin.messages[1].content) <= fin.maxTokens)
        => SumTokens(fout) <= fin.maxTokens

-----------------------------------------------------------------------------
(* Invariants of the diff engine, under SpecDiff *)

OpTags == {"equal", "delete", "insert", "replace"}

OpcodeShape(a, b, op) ==
    /\ op.tag \in OpTags
    /\ 0 <= op.i1 /\ op.i1 <= op.i2 /\ op.i2 <= Len(a)
    /\ 0 <= op.j1 /\ op.j1 <= op.j2 /\ op.j2 <= Len(b)
    /\ op.tag = "equal" =>
          /\ op.i2 - op.i1 = op.j2 - op.j1
          /\ op.i1 < op.i2
          /\ Slice(a, op.i1, op.i2) = Slice(b, op.j1, op.j2)
    /\ op.tag = "delete" => (op.j1 = op.j2 /\ op.i1 < op.i2)
    /\ op.tag = "insert" => (op.i1 = op.i2 /\ op.j1 < op.j2)
    /\ op.tag = "replace" => (op.i1 < op.i2 /\ op.j1 < op.j2)

OpcodePartition(a, b, ops) ==
    IF ops = <<>> THEN a = <<>> /\ b = <<>>
    ELSE /\ ops[1].i1 = 0 /\ ops[1].j1 = 0
         /\ ops[Len(ops)].i2 = Len(a) /\ ops[Len(ops)].j2 = Len(b)
         /\ \A k \in 2..Len(ops) :
               ops[k].i1 = ops[k - 1].i2 /\ ops[k].j1 = ops[k - 1].j2
         /\ \A k \in 1..Len(ops) : OpcodeShape(a, b, ops[k])

\* C19: for all line sequences a and b the opcodes start at (0,0), end at
\* (len(a), len(b)), each starts where the previous one ends, an equal
\* opcode spans identical lines, a delete has j1 = j2, an insert has
\* i1 = i2, a replace has both spans non-empty; two empty sequences give
\* the empty list.
C19_OpcodePartition ==
    fpc = "diff_out" =>
        /\ OpcodePartition(fin.a, fin.b, fout.opcodes)
        /\ (fin.a = <<>> /\ fin.b = <<>>) => fout.opcodes = <<>>

\* C19 witness: all four kinds of opcode in one list
C19_Witness ==
    /\ fpc = "diff_out"
    /\ {fout.opcodes[k].tag : k \in 1..Len(fout.opcodes)} = OpTags

MatchingBlocksOf(blocks) == SubSeq(blocks, 1, Len(blocks) - 1)

\* C20: for all line sequences a and b the blocks are strictly increasing
\* in i and in j, the matching blocks neither overlap nor touch on both
\* sides (adjacent runs are merged), every block spans identical lines, and
\* the list ends with the one zero-length block (len(a), len(b), 0).
C20_MatchingBlocks ==
    fpc = "diff_out" =>
        /\ fout.blocks # <<>>
        /\ fout.blocks[Len(fout.blocks)]
              = [i |-> Len(fin.a), j |-> Len(fin.b), n |-> 0]
        /\ \A k \in 1..Len(fout.blocks) - 1 :
              /\ fout.blocks[k].n > 0
              /\ fout.blocks[k].i < fout.blocks[k + 1].i
              /\ fout.blocks[k].j < fout.blocks[k + 1].j
              /\ fout.blocks[k].i + fout.blocks[k].n <= fout.blocks[k + 1].i
              /\ fout.blocks[k].j + fout.blocks[k].n <= fout.blocks[k + 1].j
              /\ Slice(fin.a, fout.blocks[k].i,
                       fout.blocks[k].i + fout.blocks[k].n)
                    = Slice(fin.b, fout.blocks[k].j,
                            fout.blocks[k].j + fout.blocks[k].n)
        /\ \A k \in 1..Len(MatchingBlocksOf(fout.blocks)) - 1 :
              ~ (/\ fout.blocks[k].i + fout.blocks[k].n = fout.blocks[k + 1].i
                 /\ fout.blocks[k].j + fout.blocks[k].n = fout.blocks[k + 1].j)

\* C20 witness: two matching blocks, the longer one second, then the
\* sentinel
C20_Witness ==
    /\ fpc = "diff_out"
    /\ Len(fout.blocks) = 3
    /\ fout.blocks[2].n > fout.blocks[1].n

-----------------------------------------------------------------------------
(* Claims about the manager's log and its reset, under Spec *)

\* C21: every operation of the manager other than reset leaves the messages
\* that were in the log before the call unchanged, in the same order, as a
\* prefix of the log after the call.
C21_Step == lastCall'.op # "reset" => IsPrefix(csm.messages, csm'.messages)

C21_AppendOnly == [][C21_Step]_vars

\* C21 witness: a terminal command was appended to a log that held the
\* capture of a file
C21_Witness ==
    /\ lastCall.op = "handleTerminalCommandEvent"
    /\ Len(csm.messages) >= 3
    /\ csm.messages[1].kind = "cat"
    /\ csm.messages[Len(csm.messages)].kind # "cat"

-----------------------------------------------------------------------------
(* Claims about the preference log, under SpecExt *)

Outcomes == {"accepted", "rejected", "ignored"}

C23_ResetStartsFresh ==
    lastCall.op = "reset" =>
        /\ csm = NewManager
        /\ activatedFiles = {}
        /\ csm.messages = <<>>
        /\ \A f \in Files :
              /\ csm.fileStates[f] = <<>>
              /\ ~csm.perFileViewport[f].some
              /\ f \notin csm.filesOpenedInConversation
              /\ ~csm.pendingEditsBefore[f].some
              /\ ~csm.pendingEditRegions[f].some

\* C23 witness: a reset after the document was edited
C23_Witness ==
    /\ lastCall.op = "reset"
    /\ docs["f"] # InitialDocs["f"]
    /\ csm = NewManager

-----------------------------------------------------------------------------
(* Claims about the time of a flush, under SpecExt *)

\* a content change arrives, after a pause, for a file with a pending edit
LateContentEventOnPending ==
    /\ lastCall'.op = "handleContentEvent"
    /\ lastCall'.late
    /\ csm.pendingEditRegions[lastCall'.file].some

\* C24: a pending edit is flushed once the grouping timeout has elapsed since
\* the last content change: a content change that arrives after the timeout
\* is never merged into the older pending edit, even within the coalescing
\* radius.
C24_Step ==
    LateContentEventOnPending =>
        /\ lastCall'.flushCalled
        /\ csm'.pendingEditsBefore[lastCall'.file]
              = Snapshot(csm.fileStates[lastCall'.file])

C24_TimeBasedFlush == [][C24_Step]_vars

-----------------------------------------------------------------------------
(* Claims about the tracked content, under Spec *)

\* C25: once a file has been snapshotted by handleTabEvent and every later
\* edit of the live document has been delivered by handleContentEvent, the
\* tracked content that a flush takes as the after state is the live text of
\* the document, whatever the inserted texts, and also after a reset that no
\* tab activation follows.  (Every active file has been snapshotted, and only
\* the active document is edited.)
C25_TrackedIsLive ==
    active # NoFile => csm.fileStates[active] = docs[active]

-----------------------------------------------------------------------------
(* Claims about the emitted command, under SpecCodec *)

SedOpenText == SedWord \o <<" ", "-", "i", " ", "'">>

\* the start of the script the shape selection rule gives for a block
ExpectedScriptHead(blk, beforeTotalLines) ==
    IF blk.endBefore < blk.startBefore
    THEN IF blk.startBefore <= Max2(1, beforeTotalLines)
         THEN NumberText(blk.startBefore) \o <<"i", "\\", NL>>
         ELSE <<"$", "a", "\\", NL>>
    ELSE IF blk.replacementLines = <<>>
         THEN NumberText(blk.startBefore) \o <<",">> \o NumberText(blk.endBefore)
                 \o <<"d", "'">>
         ELSE NumberText(blk.startBefore) \o <<",">> \o NumberText(blk.endBefore)
                 \o <<"c", "\\", NL>>

\* C26: every flush that emits an edit emits one of the four sed shapes:
\* Si\ iff endBefore < startBefore and startBefore <= max(1, lines of the
\* before snapshot), $a\ iff endBefore < startBefore and startBefore is
\* greater, S,Ed iff endBefore >= startBefore and no replacement lines, S,Ec\
\* otherwise, with S = startBefore and E = endBefore.
C26_ShapeSelection ==
    (fpc = "codec_out" /\ fout.emitted) =>
        /\ StartsWithAt(CommandText(fout.msg), 1,
              SedOpenText \o ExpectedScriptHead(
                                fout.block,
                                Len(SplitLines(JoinWith(fin.before, <<NL>>)))))
        /\ fout.msg.shape \in {"i", "a", "d", "c"}

\* C26 witness: an insertion before the last line of the snapshot, emitted
\* as an insert-before
C26_Witness ==
    /\ fpc = "codec_out"
    /\ fout.emitted
    /\ fout.block.endBefore < fout.block.startBefore
    /\ fout.block.startBefore = Len(fin.before)
    /\ fout.msg.shape = "i"

-----------------------------------------------------------------------------
(* Claims about the command extraction and the later clauses, under        *)
(* SpecParse                                                                *)

\* the content of the last fenced block of the reply, up to the line break
\* before the closing fence
LastBlockContent(p) ==
    IF p.fenced THEN PartsCommand(p) \o <<NL>> ELSE LeadText \o <<NL>>

HasFencedBlock(p) == p.fenced \/ p.lead

\* C27: for every reply with one or more fenced code blocks extractBashCommand
\* returns the content of the last fenced block, and the action is parsed from
\* it; only a reply without a fenced block is returned trimmed as it is.
C27_LastFencedBlock ==
    fpc = "parse_out" =>
        IF HasFencedBlock(fin.parts)
        THEN /\ extractBashCommand(ReplyText(fin.parts))
                   = StringOf(LastBlockContent(fin.parts))
             /\ fout = ActionOfCommand(StringOf(LastBlockContent(fin.parts)),
                                       ParsedDocument)
        ELSE extractBashCommand(ReplyText(fin.parts))
                = IF Trim(ReplyText(fin.parts)) = <<>> THEN Undefined
                  ELSE StringOf(Trim(ReplyText(fin.parts)))

\* the viewport read that follows the sed command of the parts
ViewportClause(p) ==
    CatN \o PathText(p.path) \o ViewportPipeText([vps |-> 1, vpe |-> 2])

\* the first clause of the reply's command is not a valid edit for the
\* document, and a viewport read follows it after &&
EditFailsBeforeViewport ==
    /\ fin.parts.form = "sed"
    /\ fin.parts.follow = "viewport"
    /\ parseEditFromSedCommand(NormalizedOf(extractBashCommand(ReplyText(fin.parts))),
                               ParsedDocument).kind = "none"

\* C28: for a command C1 && C2 whose first clause is not a valid edit for the
\* active document and whose later clause is a cat -n viewport read,
\* parseAction returns the setSelections or openFile action of C2, not a
\* terminal command.
C28_LaterClauseMatched ==
    (fpc = "parse_out" /\ EditFailsBeforeViewport) =>
        /\ fout.kind \in {"setSelections", "openFile"}
        /\ fout = parseViewportFromCatCommand(ViewportClause(fin.parts), ParsedDocument)

\* the reply is one append command for the document's file
AppendForDocument ==
    /\ fin.parts.form = "sed"
    /\ fin.parts.shape = "a"
    /\ fin.parts.path = "f"
    /\ fin.parts.flags = <<"-", "i", " ">>
    /\ fin.parts.follow # "second"

\* C29: for every document of n >= 1 lines and every payload P, parsing
\* sed -i '$a\<newline>P' FILE for the active file gives an editInsert at
\* (n, 0) whose text is a line break, the unescaped P, and one terminating
\* line break.
C29_AppendDecoding ==
    (fpc = "parse_out" /\ AppendForDocument) =>
        /\ fout.kind = "editInsert"
        /\ fout.position = <<Len(ParsedDocument.lines), 0>>
        /\ fout.text = <<NL>> \o EndWithNL(UnescapePayload(fin.parts.payload))

-----------------------------------------------------------------------------
(* Claims about the pairs of a truncated transcript, under SpecTrunc *)

\* message k of the input is the command of a pair: the next message is the
\* output that answers it
IsPairAt(messages, k) ==
    /\ k >= 2 /\ k < Len(messages)
    /\ messages[k].role = "assistant"
    /\ messages[k + 1].role = "user"

\* how many messages of the input are missing from the result
DroppedCount == Len(fin.messages) - Len(fout)

\* message k of the input is in the result, which is the system prompt and
\* the messages after the dropped ones
KeptAt(k) ==
    /\ k > 1 + DroppedCount
    /\ k - DroppedCount <= Len(fout)
    /\ fout[k - DroppedCount] = fin.messages[k]

-----------------------------------------------------------------------------
(* Claims about the place of terminal output in the log, under Spec *)

\* C31: every terminal-output user message of the log stands directly after
\* the assistant message of a terminal command; in particular none stands
\* after the stdout message of an edit or viewport command.
C31_OutputFollowsCommand ==
    \A k \in 1..Len(csm.messages) :
        csm.messages[k].kind = "termout"
            => k > 1 /\ csm.messages[k - 1].kind = "terminal"

-----------------------------------------------------------------------------
(* Claims about the previews and the editor events, under SpecExt *)

\* this step is modelRun or showPendingAction handing currentAction to the
\* active editor
Accepted ==
    /\ active # NoFile
    /\ \/ ~ext.executing /\ ext'.executing
       \/ ~ext.picking /\ ext'.picking

\* C32: an accepted suggestion is never stale.  When modelRun or
\* showPendingAction executes an action, the manager is as the finalizeForModel
\* of the request the action was parsed from left it: no content change,
\* selection or tab switch has been handled since that request was issued.
C32_Step ==
    Accepted =>
        /\ ext.shownRequest \in RequestIds
        /\ csm = ext.requests[ext.shownRequest].sent

C32_NeverStale == [][C32_Step]_vars

\* C33: dismissal suppresses automatic previews.  hidePreviewUI(true), which
\* the hideUi command runs, sets suppressAutoPreview, and only the three
\* editor listeners unset it: while it is set (a dismissal, and no selection,
\* active-editor or document change since) no preview is visible.
C33_DismissalSuppresses == ext.suppressAutoPreview => ~ext.preview.visible

\* C34: disabled means no previews.  A handler that runs while
\* suggestionsEnabled is false, and leaves it false, does not call
\* showPreviewUI and issues no model request.
C34_Step ==
    (~ext.suggestionsEnabled /\ ~ext'.suggestionsEnabled) =>
        /\ \A k \in 1..Len(ext'.uiCalls) : ext'.uiCalls[k] # "show"
        /\ ~Issued

C34_DisabledMeansNoPreviews == [][C34_Step]_vars

-----------------------------------------------------------------------------
(* Claims about the edit an emitted command is executed as, under SpecCodec *)

\* TextDocument.validatePosition and offsetAt: a position past the last line
\* is the end of the document, a character past the end of its line the end
\* of the line
offsetAt(lines, position) ==
    IF position[1] >= Len(lines)
    THEN Len(JoinWith(lines, <<NL>>))
    ELSE Len(JoinWith(SubSeq(lines, 1, position[1]), <<NL>>))
             + (IF position[1] > 0 THEN 1 ELSE 0)
             + Min2(position[2], Len(lines[position[1] + 1]))

\* the text of the editor's document after executeAction(action): e.insert,
\* e.delete and e.replace of editor.edit; the other actions leave the text
editedText(text, action) ==
    CASE action.kind = "editInsert" ->
            Slice(text, 0, offsetAt(SplitLines(text), action.position))
                \o action.text
                \o Slice(text, offsetAt(SplitLines(text), action.position), Len(text))
      [] action.kind = "editDelete" ->
            Slice(text, 0, offsetAt(SplitLines(text), action.start))
                \o Slice(text, offsetAt(SplitLines(text), action.end), Len(text))
      [] action.kind = "editReplace" ->
            Slice(text, 0, offsetAt(SplitLines(text), action.start))
                \o action.text
                \o Slice(text, offsetAt(SplitLines(text), action.end), Len(text))
      [] OTHER -> text

PlainLines(lines) == \A k \in 1..Len(lines) : lines[k] \in PlainLineSet

\* C35: for before and after documents that differ by more than trailing
\* newlines and whose lines hold no single quote, backslash, & or |, a command
\* is emitted, and executing the action parsed from it on the before document
\* gives the after document up to trailing newlines.
C35_EditRoundTrip ==
    (/\ fpc = "codec_out"
     /\ PlainLines(fin.after)
     /\ StripTrailingNL(JoinWith(fin.before, <<NL>>))
            # StripTrailingNL(JoinWith(fin.after, <<NL>>))) =>
        /\ fout.emitted
        /\ StripTrailingNL(editedText(JoinWith(fin.before, <<NL>>), fout.action))
               = StripTrailingNL(JoinWith(fin.after, <<NL>>))

-----------------------------------------------------------------------------
(* Claims about the captured files and the pending edits, under Spec *)

\* message k of the log is an assistant command that edits a file with sed or
\* reads a viewport of it
UsesFile(k) == csm.messages[k].kind \in {"sed", "viewport"}

\* C36: capture precedes use.  Every assistant message of the log that edits
\* a file with sed or reads a viewport of it has before it in the log, which
\* reset empties, an assistant message `cat -n` of that file.
C36_CapturePrecedesUse ==
    \A k \in 1..Len(csm.messages) :
        UsesFile(k) =>
            \E j \in 1..(k - 1) :
                /\ csm.messages[j].kind = "cat"
                /\ csm.messages[j].file = csm.messages[k].file

\* C36 witness: after a reset the log holds an edit of a file, which
\* maybeCaptureFileContents has captured before it
C36_Witness ==
    /\ activatedFiles = {}
    /\ \E k \in 1..Len(csm.messages) : csm.messages[k].kind = "sed"
    /\ csm.messages[1].kind = "cat"

\* C37: pending-edit consistency.  For every file the before snapshot is set
\* exactly when the pending region is set, and a region that is set has
\* 1 <= start <= end.
C37_PendingConsistency ==
    \A f \in Files :
        /\ csm.pendingEditsBefore[f].some <=> csm.pendingEditRegions[f].some
        /\ csm.pendingEditRegions[f].some =>
              /\ 1 <= csm.pendingEditRegions[f].start
              /\ csm.pendingEditRegions[f].start <= csm.pendingEditRegions[f].end

\* C37 witness: a content change has been merged into a pending edit whose
\* region now spans several lines, while another file has no pending edit
C37_Witness ==
    /\ lastCall.op = "handleContentEvent"
    /\ ~lastCall.flushCalled
    /\ \E f \in Files :
          /\ csm.pendingEditsBefore[f].some
          /\ csm.pendingEditRegions[f].start < csm.pendingEditRegions[f].end
    /\ \E f \in Files : ~csm.pendingEditsBefore[f].some

-----------------------------------------------------------------------------
(* The prediction timers in time: the editor listeners and the timer        *)
(* callback of schedulePredictionRefresh, with Date.now() advancing in      *)
(* steps of TickMs; a timer runs when it is due, the oldest first.          *)

PREDICTION_DEBOUNCE_MS == 150
PREDICTION_THROTTLE_MS == 300

TickMs == 50
MaxTime == 600
MaxClockEvents == 3

\* schedulePredictionRefresh: the delay given to setTimeout
PredictionDelay(debounce, now, last) ==
    Max2(IF debounce THEN Max2(0, PREDICTION_DEBOUNCE_MS) ELSE 0,
         IF last.some /\ now - last.v < PREDICTION_THROTTLE_MS
         THEN PREDICTION_THROTTLE_MS - (now - last.v) ELSE 0)

\* the clock after a listener took the extension from x to y: when its
\* schedulePredictionRefresh(true, false) has set a timer, the timer's due time
Scheduled(k, x, y) ==
    IF y.nextQueuedPredictionId = x.nextQueuedPredictionId THEN k
    ELSE [k EXCEPT !.due = Append(@, k.now + PredictionDelay(
                                                 TRUE, k.now, k.lastPredictionTimestamp))]

\* the callback of timer id: lastPredictionTimestamp = Date.now(), and the
\* call of autoShowNextAction
Fired(k, id) ==
    [k EXCEPT !.lastPredictionTimestamp = [some |-> TRUE, v |-> k.now],
              !.calls = Append(@, k.now),
              !.fired = Append(@, id)]

ClockActiveChange ==
    /\ nEvents < MaxClockEvents
    /\ \E editor \in Files \cup {NoFile} : onActiveChange(editor)
    /\ clock' = Scheduled(clock, ext, ext')
    /\ nEvents' = nEvents + 1

ClockTypeText ==
    /\ nEvents < MaxClockEvents
    /\ active # NoFile
    /\ onDocChange(EndOfLine(docs[active], 1), 0, <<"x">>)
    /\ clock' = Scheduled(clock, ext, ext')
    /\ nEvents' = nEvents + 1

ClockSelChange ==
    /\ nEvents < MaxClockEvents
    /\ onSelChange(1)
    /\ clock' = Scheduled(clock, ext, ext')
    /\ nEvents' = nEvents + 1

\* the oldest pending timer is due
ClockTimer ==
    /\ ext.pendingPredictions # <<>>
    /\ clock.due[Head(ext.pendingPredictions)] <= clock.now
    /\ predictionTimer
    /\ clock' = Fired(clock, Head(ext.pendingPredictions))
    /\ UNCHANGED nEvents

\* time passes while no timer is due
Tick ==
    /\ clock.now + TickMs <= MaxTime
    /\ \A i \in 1..Len(ext.pendingPredictions) :
          clock.due[ext.pendingPredictions[i]] > clock.now
    /\ clock' = [clock EXCEPT !.now = @ + TickMs]
    /\ UNCHANGED <<csm, activatedFiles, active, docs, reading, lastCall, nEvents,
                   ext, harnessVars>>

NextClock ==
    \/ ClockActiveChange
    \/ ClockTypeText
    \/ ClockSelChange
    \/ ClockTimer
    \/ Tick

SpecClock == Init /\ [][NextClock]_vars

\* C38: throttling of model calls.  Any two consecutive calls of
\* autoShowNextAction made by timers of schedulePredictionRefresh are at least
\* PREDICTION_THROTTLE_MS apart.
C38_Throttled ==
    \A k \in 2..Len(clock.calls) :
        clock.calls[k] - clock.calls[k - 1] >= PREDICTION_THROTTLE_MS

\* this step is a schedulePredictionRefresh that sets a timer
TimerSet == ext'.nextQueuedPredictionId # ext.nextQueuedPredictionId

C39_Inv ==
    /\ Len(ext.pendingPredictions) <= 2
    /\ \A i \in 1..Len(ext.pendingPredictions) :
          ext.pendingPredictions[i] \notin ext.cancelledPredictionIds
    /\ \A i \in 1..Len(clock.fired) : clock.fired[i] \notin ext.cancelledPredictionIds

C39_Step ==
    (TimerSet /\ Len(ext.pendingPredictions) = 2) =>
        /\ ext'.pendingPredictions =
               <<ext.pendingPredictions[2], ext'.nextQueuedPredictionId>>
        /\ ext'.cancelledPredictionIds =
               ext.cancelledPredictionIds \cup {ext.pendingPredictions[1]}

\* C39: bounded prediction queue.  At most two predictions are pending; a
\* schedulePredictionRefresh that sets a third timer cancels the oldest and
\* takes it off the queue; no cancelled prediction is pending, and none has
\* called autoShowNextAction.
C39_BoundedQueue == []C39_Inv /\ [][C39_Step]_vars

\* C39 witness: a third timer was set while two were pending, the oldest was
\* cancelled, and the two others have called autoShowNextAction
C39_Witness ==
    /\ ext.cancelledPredictionIds = {1}
    /\ clock.fired = <<2, 3>>
    /\ ext.pendingPredictions = <<>>

-----------------------------------------------------------------------------
(* The character diff of the preview: diffChars and                         *)
(* analyzeCoherentReplacement, on bounded texts.  The document holds the    *)
(* old text from offset 0 on, so that a position is its offset.             *)

MaxCharLen == 3

RECURSIVE dp(_, _, _, _)
\* the entry dp[i][j] of longestCommonSubsequence's table
dp(str1, str2, i, j) ==
    IF i = 0 \/ j = 0 THEN 0
    ELSE IF str1[i] = str2[j] THEN dp(str1, str2, i - 1, j - 1) + 1
    ELSE Max2(dp(str1, str2, i - 1, j), dp(str1, str2, i, j - 1))

RECURSIVE Backtrack(_, _, _, _, _)
\* the backtracking loop of longestCommonSubsequence
Backtrack(str1, str2, i, j, lcs) ==
    IF ~(i > 0 /\ j > 0) THEN lcs
    ELSE IF str1[i] = str2[j]
    THEN Backtrack(str1, str2, i - 1, j - 1, <<str1[i]>> \o lcs)
    ELSE IF dp(str1, str2, i - 1, j) > dp(str1, str2, i, j - 1)
    THEN Backtrack(str1, str2, i - 1, j, lcs)
    ELSE Backtrack(str1, str2, i, j - 1, lcs)

longestCommonSubsequence(str1, str2) ==
    Backtrack(str1, str2, Len(str1), Len(str2), <<>>)

RECURSIVE SkipChanged(_, _, _, _)
\* the loops over the characters that are not the next of the LCS: the index
\* they stop at (indices are 0-based)
SkipChanged(text, lcs, index, lcsIndex) ==
    IF index < Len(text) /\ (lcsIndex >= Len(lcs) \/ text[index + 1] # lcs[lcsIndex + 1])
    THEN SkipChanged(text, lcs, index + 1, lcsIndex)
    ELSE index

RECURSIVE EqualRun(_, _, _, _, _, _)
\* the loop over the equal characters: how many it takes
EqualRun(oldText, newText, lcs, oldIndex, newIndex, lcsIndex) ==
    IF /\ lcsIndex < Len(lcs)
       /\ oldIndex < Len(oldText)
       /\ newIndex < Len(newText)
       /\ oldText[oldIndex + 1] = lcs[lcsIndex + 1]
       /\ newText[newIndex + 1] = lcs[lcsIndex + 1]
    THEN 1 + EqualRun(oldText, newText, lcs, oldIndex + 1, newIndex + 1, lcsIndex + 1)
    ELSE 0

Segment(type, value) == [type |-> type, value |-> value]

\* segments.push of a value that is not empty
Pushed(segments, type, value) ==
    IF value = <<>> THEN segments ELSE Append(segments, Segment(type, value))

RECURSIVE DiffLoop(_, _, _, _, _, _, _)
RECURSIVE DiffTurn(_, _, _, _, _, _, _, _, _, _)
\* the outer loop of diffChars
DiffLoop(oldText, newText, lcs, oldIndex, newIndex, lcsIndex, segments) ==
    IF ~(oldIndex < Len(oldText) \/ newIndex < Len(newText)) THEN segments
    ELSE DiffTurn(oldText, newText, lcs, oldIndex, newIndex, lcsIndex, segments,
                  SkipChanged(oldText, lcs, oldIndex, lcsIndex),
                  SkipChanged(newText, lcs, newIndex, lcsIndex),
                  EqualRun(oldText, newText, lcs,
                           SkipChanged(oldText, lcs, oldIndex, lcsIndex),
                           SkipChanged(newText, lcs, newIndex, lcsIndex), lcsIndex))

\* one turn of the loop: the deleted characters up to oldEnd, the inserted
\* ones up to newEnd, then equalCount equal ones
DiffTurn(oldText, newText, lcs, oldIndex, newIndex, lcsIndex, segments,
         oldEnd, newEnd, equalCount) ==
    DiffLoop(oldText, newText, lcs, oldEnd + equalCount, newEnd + equalCount,
             lcsIndex + equalCount,
             Pushed(Pushed(Pushed(segments,
                                  "delete", Slice(oldText, oldIndex, oldEnd)),
                           "insert", Slice(newText, newIndex, newEnd)),
                    "equal", Slice(lcs, lcsIndex, lcsIndex + equalCount)))

diffChars(oldText, newText) ==
    DiffLoop(oldText, newText, longestCommonSubsequence(oldText, newText), 0, 0, 0, <<>>)

\* number | null and string | null
Null == [some |-> FALSE, v |-> <<>>]
Value(v) == [some |-> TRUE, v |-> v]

NotCoherent ==
    [isCoherent |-> FALSE, deletionStart |-> 0, deletionEnd |-> 0, insertionText |-> <<>>]

\* analyzeCoherentReplacement's variables before its loop
Analysis0 ==
    [changeRegions |-> 0, lastWasChange |-> FALSE, deletionStart |-> Null,
     deletionEnd |-> Null, insertionText |-> Null, offset |-> 0]

\* analyzeCoherentReplacement after its loop
CoherentResult(a) ==
    IF a.changeRegions # 1 \/ ~a.deletionStart.some \/ ~a.deletionEnd.some
       \/ ~a.insertionText.some \/ a.insertionText.v = <<>>
    THEN NotCoherent
    ELSE [isCoherent |-> TRUE, deletionStart |-> a.deletionStart.v,
          deletionEnd |-> a.deletionEnd.v, insertionText |-> a.insertionText.v]

\* the body of the loop after the test of changeRegions
AnalyzeSegment(a, segment, isChange, changeRegions) ==
    [changeRegions |-> changeRegions,
     lastWasChange |-> isChange,
     deletionStart |-> IF segment.type = "delete" /\ ~a.deletionStart.some
                       THEN Value(a.offset) ELSE a.deletionStart,
     deletionEnd |-> IF segment.type = "delete"
                     THEN Value(a.offset + Len(segment.value)) ELSE a.deletionEnd,
     insertionText |-> IF segment.type # "insert" THEN a.insertionText
                       ELSE IF ~a.insertionText.some THEN Value(segment.value)
                       ELSE Value(a.insertionText.v \o segment.value),
     offset |-> IF segment.type # "insert"
                THEN a.offset + Len(segment.value) ELSE a.offset]

RECURSIVE AnalyzeFrom(_, _, _)
RECURSIVE AnalyzeNext(_, _, _, _, _)
\* the loop over the segments, from segment k on
AnalyzeFrom(diffs, k, a) ==
    IF k > Len(diffs) THEN CoherentResult(a)
    ELSE AnalyzeNext(diffs, k, a, diffs[k].type \in {"delete", "insert"},
                     IF diffs[k].type \in {"delete", "insert"} /\ ~a.lastWasChange
                     THEN a.changeRegions + 1 ELSE a.changeRegions)

AnalyzeNext(diffs, k, a, isChange, changeRegions) ==
    IF changeRegions > 1 THEN NotCoherent
    ELSE AnalyzeFrom(diffs, k + 1, AnalyzeSegment(a, diffs[k], isChange, changeRegions))

\* doc.getText(range) is oldText
analyzeCoherentReplacement(oldText, newText) ==
    AnalyzeFrom(diffChars(oldText, newText), 1, Analysis0)

CharSet == {"a", "b", "c"}
CharTexts == UNION {[1..k -> CharSet] : k \in 0..MaxCharLen}

InitChars ==
    /\ CsmInit
    /\ ext = ExtInit
    /\ fin \in [oldText : CharTexts, newText : CharTexts]
    /\ fout = [diffs |-> <<>>, result |-> NotCoherent]
    /\ fpc = "chars_in"

CharsRun ==
    /\ fpc = "chars_in"
    /\ fout' = [diffs |-> diffChars(fin.oldText, fin.newText),
                result |-> analyzeCoherentReplacement(fin.oldText, fin.newText)]
    /\ fpc' = "chars_out"
    /\ UNCHANGED <<fin, csmVars>>

NextChars == CharsRun

SpecChars == InitChars /\ [][NextChars]_vars

\* newText is oldText with the del > 0 characters after the first pre
\* replaced by ins > 0 other characters, the two substrings sharing neither
\* their first nor their last character (so that the change is one only way)
SingleChange(oldText, newText, pre, del, ins) ==
    /\ pre + del <= Len(oldText)
    /\ Len(newText) = Len(oldText) - del + ins
    /\ SubSeq(oldText, 1, pre) = SubSeq(newText, 1, pre)
    /\ SubSeq(oldText, pre + del + 1, Len(oldText))
           = SubSeq(newText, pre + ins + 1, Len(newText))
    /\ oldText[pre + 1] # newText[pre + 1]
    /\ oldText[pre + del] # newText[pre + ins]

\* C40: whenever newText is oldText with one contiguous non-empty substring
\* replaced by another non-empty substring, analyzeCoherentReplacement returns
\* isCoherent = true with the deletion range and the insertion text of such a
\* single change.
C40_CoherentDetected ==
    (/\ fpc = "chars_out"
     /\ \E pre \in 0..MaxCharLen, del \in 1..MaxCharLen, ins \in 1..MaxCharLen :
            SingleChange(fin.oldText, fin.newText, pre, del, ins)) =>
        /\ fout.result.isCoherent
        /\ \E pre \in 0..MaxCharLen, del \in 1..MaxCharLen, ins \in 1..MaxCharLen :
              /\ SingleChange(fin.oldText, fin.newText, pre, del, ins)
              /\ fout.result.deletionStart = pre
              /\ fout.result.deletionEnd = pre + del
              /\ fout.result.insertionText
                     = SubSeq(fin.newText, pre + 1, pre + ins)

=============================================================================
